---- MODULE Spec2Model ----
(***************************************************************************)
(* State-machine model of the dashboard's synchronization core:            *)
(*   - MonitoringPage.tsx : the sample window (data), the query-mode       *)
(*     controller (loadData and its filter), the push-channel effect.      *)
(*   - WeatherPage.tsx    : the debounced city search and the prediction   *)
(*     panels.                                                             *)
(* React state setters are modelled as assignments; one action is one     *)
(* event-loop task (a DOM event with the effects it triggers, a promise   *)
(* settlement, a socket event, a timer callback).                          *)
(***************************************************************************)
EXTENDS Integers, Sequences, FiniteSets, Bags, TLC

\* ------------------------------------------------------------------ bounds
\* The window capacity: the literal 200 of MonitoringPage.tsx (limit=200,
\* slice(0, 200)), scaled down so that the window space stays enumerable.
C == 2
\* Largest number of batch fetches in flight at once.
MaxInflight == 2

\* ------------------------------------------------------- helper operators
Reverse(s) == [i \in 1..Len(s) |-> s[Len(s) + 1 - i]]

Min(a, b) == IF a <= b THEN a ELSE b

\* All sequences over S of length 0..n.
SeqUpTo(S, n) == UNION {[1..k -> S] : k \in 0..n}

\* Array.prototype.slice(0, n)
SliceTo(s, n) == SubSeq(s, 1, Min(Len(s), n))

\* String.prototype.trim on the strings the model uses.
Trim(s) ==
  CASE s = " " -> ""
    [] s = "Pa " -> "Pa"
    [] OTHER -> s

\* An optional number: {} is undefined, {n} is the number n.
None == {}
Some(n) == {n}
\* x ?? d
OrElse(x, d) == IF x = None THEN d ELSE CHOOSE n \in x : TRUE

\* ------------------------------------------------------ monitoring: data
\* MonitoringData rows. timestamp is an instant in seconds (an ISO string in
\* the source); temperature is optional.
Row(dev, ts, temp) == [device_id |-> dev, timestamp |-> ts, temperature |-> temp]

RowA1 == Row("d1", 30, None)
RowA2 == Row("d1", 70, Some(21))
RowB1 == Row("d2", 50, Some(0))

Rows == {RowA1, RowA2, RowB1}

\* Push-channel payloads (doc: unknown). A field is a tagged JavaScript value.
JsString(v) == [t |-> "string", v |-> v]
JsNumber(v) == [t |-> "number", v |-> v]
JsUndefined == [t |-> "undefined", v |-> 0]
JsNoId == [t |-> "undefined", v |-> ""]

Doc(dev, ts, temp) == [isObject |-> TRUE, device_id |-> dev, timestamp |-> ts, temperature |-> temp]
NullDoc == [isObject |-> FALSE, device_id |-> JsNoId, timestamp |-> JsUndefined, temperature |-> JsUndefined]

ValidDocs ==
  { Doc(JsString("d1"), JsString(30), JsUndefined),
    Doc(JsString("d1"), JsString(70), JsNumber(21)),
    Doc(JsString("d2"), JsString(50), JsNumber(0)) }

MalformedDocs ==
  { NullDoc,
    Doc(JsNoId, JsString(50), JsNumber(21)),
    Doc(JsString("d1"), JsNumber(70), JsNumber(21)) }

Docs == ValidDocs \cup MalformedDocs

\* toLocaleTimeString("fr-FR", {hour, minute}): the instant cut to its minute.
FormatTime(ts) == ts \div 60

\* One chart point (lines 168-175): the time label and the metrics, 0 when undefined.
ChartPoint(m) == [time |-> FormatTime(m.timestamp), temp |-> OrElse(m.temperature, 0)]

\* Mutant of ChartData: the reverse() call is lost.
ChartData_NoReverse(d) == [i \in 1..Len(d) |-> ChartPoint(d[i])]

\* data.slice().reverse().map(...), lines 165-175.
ChartData(d) == [i \in 1..Len(d) |-> ChartPoint(Reverse(d)[i])]

\* ------------------------------------------------------------- variables
VARIABLES
  \* MonitoringPage
  mounted,            \* the monitoring view is mounted (its effects are live)
  data,               \* useState<MonitoringData[]>: the sample window, newest first
  chartData,          \* useMemo([data]): the chronological projection fed to the charts
  loading,            \* useState(true): the batch loading flag
  deviceFilter,       \* useState(""): selected device id
  dateStart,          \* useState(""): range start
  dateEnd,            \* useState(""): range end
  useDateRange,       \* useState(false): range mode toggle
  socketConnected,    \* useState(false): displayed connectivity
  transportConnected, \* socketRef.current.connected: the transport's own flag
  listeners,          \* bag of the socket events with a listener registered on an open connection
  sockets,            \* connections opened by io() and not yet disconnected
  interval,           \* the liveness setInterval is armed
  inflight,           \* bag of the batch requests issued by loadData and not yet settled
  lastApplied,        \* history: the request whose settlement last wrote the window
  lastOp,             \* history: the kind of the last step
  scen,               \* history: progress through connect, event, disconnect, connect
  predictDeviceId,    \* useState(""): the device of the ML prediction select
  prediction,         \* useState(null): the ML prediction shown
  predictionLoading,  \* useState(false)
  predictionError,    \* useState(null)
  predictionReqs      \* bag of the ML prediction requests in flight

mlVars == <<predictDeviceId, prediction, predictionLoading, predictionError, predictionReqs>>

monVars == <<mounted, data, chartData, loading, deviceFilter, dateStart, dateEnd, useDateRange,
             socketConnected, transportConnected, listeners, sockets, interval, inflight,
             lastApplied,
             lastOp, scen, mlVars>>

VARIABLES
  \* WeatherPage: city search
  cityQuery,          \* useState("Paris"): the search input
  citySuggestions,    \* useState([]): the suggestion list
  suggestionsOpen,    \* useState(false)
  searching,          \* useState(false)
  searchError,        \* useState(null): the message under the input
  error,              \* useState(null): the current-weather error, cleared by typing
  searchTimeoutRef,   \* useRef: the settle timer the component remembers, or NoTimer
  timers,             \* the settle timers armed with setTimeout and neither fired nor cleared
  searchReqs,         \* bag of the suggestion queries in flight
  sinceInput,         \* history: ms since the last input change, capped at the settle interval
  lastTyped,          \* history: the value of the last input change
  burstLen,           \* history: input changes in a row, each sooner than the settle interval after the previous
  sentSinceInput,     \* history: suggestion queries sent since the last input change
  lastSent,           \* history: value and time-since-input of the last suggestion query sent
  lastSearch,         \* history: how the last settled suggestion query ended
  weatherMounted      \* the weather view is mounted

searchVars == <<cityQuery, citySuggestions, suggestionsOpen, searching, searchError, error,
                searchTimeoutRef, timers, searchReqs, sinceInput, lastTyped, burstLen,
                sentSinceInput, lastSent, lastSearch, weatherMounted>>

VARIABLES
  \* WeatherPage: device-keyed prediction panels
  selectedCity,            \* useState({Paris}): the City Selection
  weatherAwareDeviceId,    \* useState("")
  weatherAwareResult,      \* useState(null)
  weatherAwareLoading,     \* useState(false)
  weatherAwareError,       \* useState(null)
  weatherAwareReqs,        \* weather-aware requests in flight
  prediction24hDeviceId,   \* useState("")
  prediction24hData,       \* useState(null)
  prediction24hLoading,    \* useState(false)
  prediction24hError,      \* useState(null)
  prediction24hReqs,       \* 24h requests in flight
  weatherAwareOutcome,     \* history: how the last weather-aware request ended
  prediction24hOutcome,    \* history: how the last 24h request ended
  lastResolved             \* history: the panel whose request settled last

weatherAwareVars == <<weatherAwareDeviceId, weatherAwareResult, weatherAwareLoading,
                      weatherAwareError, weatherAwareReqs, weatherAwareOutcome>>

prediction24hVars == <<prediction24hDeviceId, prediction24hData, prediction24hLoading,
                       prediction24hError, prediction24hReqs, prediction24hOutcome>>

VARIABLES
  \* WeatherPage: location-keyed panels
  weather,                 \* useState(null): the current weather
  weatherLoading,          \* useState(true): `loading` in the source
  weatherReqs,             \* runs of the current-weather effect still awaiting an answer
  forecastData,            \* useState(null)
  forecastLoading,         \* useState(false)
  forecastError,           \* useState(null)
  forecastReqs,            \* runs of the forecast effect still awaiting an answer
  analysisData,            \* useState(null)
  analysisLoading,         \* useState(false)
  analysisError,           \* useState(null)
  analysisReqs,            \* runs of the analysis effect still awaiting an answer
  sensorsData,             \* useState([]): device ids of the recent samples, in order
  sensorsLoading,          \* useState(false): the recent-samples request is awaiting its answer
  weatherOutcome,          \* history: how the latest run of the current-weather effect ended
  forecastOutcome,         \* history: how the latest run of the forecast effect ended
  analysisOutcome,         \* history: how the latest run of the analysis effect ended
  answering                \* the location panel whose requests get their answers in this behaviour

weatherVars == <<weather, weatherLoading, weatherReqs, weatherOutcome>>

forecastVars == <<forecastData, forecastLoading, forecastError, forecastReqs, forecastOutcome>>

analysisVars == <<analysisData, analysisLoading, analysisError, analysisReqs, analysisOutcome,
                  sensorsData, sensorsLoading>>

locVars == <<weatherVars, forecastVars, analysisVars, answering>>

predictionVars == <<lastResolved, weatherAwareVars, prediction24hVars>>

\* The search variables other than the current-weather error.
searchOnlyVars == <<cityQuery, citySuggestions, suggestionsOpen, searching, searchError,
                    searchTimeoutRef, timers, searchReqs, sinceInput, lastTyped, burstLen,
                    sentSinceInput, lastSent, lastSearch, weatherMounted>>

panelVars == <<selectedCity, lastResolved, weatherAwareVars, prediction24hVars, locVars>>

\* ------------------------------------------------------ devices: lookup by id
VARIABLES
  searchId,           \* useState(""): the id typed in the lookup form
  deviceById,         \* useState(null): the device the lookup shows
  searchLoading,      \* useState(false)
  lookupError,        \* searchError of DevicesPage, useState(null)
  lookupReqs,         \* bag of the ids whose lookup is in flight
  lookupReply         \* history: the last reply a lookup settled with

devVars == <<searchId, deviceById, searchLoading, lookupError, lookupReqs, lookupReply>>

vars == <<monVars, searchVars, panelVars, devVars>>

\* --------------------------------------------- monitoring: query controller
DeviceFilters == {"", "d1"}
StartValues == {"", "s"}
EndValues == {"", "e"}

NoRequest == [mode |-> "none", device |-> "", start |-> "", end |-> ""]
AllRequest == [mode |-> "all", device |-> "", start |-> "", end |-> ""]
DeviceRequest(dev) == [mode |-> "device", device |-> dev, start |-> "", end |-> ""]
RangeRequest(dev, s, e) == [mode |-> "range", device |-> dev, start |-> s, end |-> e]

\* Mutant of RequestFor: the range branch does not ask for a device id.
RequestFor_RangeWithoutDevice(dev, range, s, e) ==
  IF range /\ s # "" /\ e # ""
    THEN RangeRequest(Trim(dev), s, e)
    ELSE IF Trim(dev) # ""
      THEN DeviceRequest(Trim(dev))
      ELSE AllRequest

\* The request loadData issues for the filter values of its closure (lines 80-93).
RequestFor(dev, range, s, e) ==
  IF range /\ Trim(dev) # "" /\ s # "" /\ e # ""
    THEN RangeRequest(Trim(dev), s, e)
    ELSE IF Trim(dev) # ""
      THEN DeviceRequest(Trim(dev))
      ELSE AllRequest

\* What the backend may answer: rows in time order, oldest first. The latest
\* endpoints are called with limit=200 and honour it; the range endpoint takes no
\* limit. A device endpoint returns rows of that device only.
RowsFor(req) == IF req.mode = "all" THEN Rows ELSE {r \in Rows : r.device_id = req.device}
LimitFor(req) == IF req.mode = "range" THEN C + 1 ELSE C

ArrayBody(rows) == [isArray |-> TRUE, rows |-> rows]
NonArrayBody == [isArray |-> FALSE, rows |-> <<>>]

IsAscending(s) == \A i \in 1..Len(s) - 1 : s[i].timestamp <= s[i + 1].timestamp

Responses(req) ==
  {ArrayBody(s) : s \in {q \in SeqUpTo(RowsFor(req), LimitFor(req)) : IsAscending(q)}}
    \cup {NonArrayBody}

Requests ==
  {AllRequest} \cup {DeviceRequest(Trim(d)) : d \in DeviceFilters \ {""}}
    \cup {RangeRequest(Trim(d), st, en) : d \in DeviceFilters \ {""}, st \in StartValues \ {""}, en \in EndValues \ {""}}

\* Responses, tabulated once per request.
ResponseTable == [req \in Requests |-> Responses(req)]

\* Mutant of BatchWindow: the response is installed in the order it came.
BatchWindow_NoReverse(req, body) ==
  IF ~body.isArray THEN <<>> ELSE body.rows

\* The window a successful fetch installs (lines 86, 89, 92).
BatchWindow(req, body) ==
  IF ~body.isArray THEN <<>>
  ELSE IF req.mode = "range" THEN body.rows
  ELSE Reverse(body.rows)

\* loadData up to its await: setLoading(true) and the request of the closure's filter.
LoadData(dev, range, s, e) ==
  /\ BagCardinality(inflight) < MaxInflight
  /\ loading' = TRUE
  /\ inflight' = inflight (+) SetToBag({RequestFor(dev, range, s, e)})

\* onChange of the device select, then the [loadData] effect.
SetDeviceFilter(v) ==
  /\ mounted
  /\ v # deviceFilter
  /\ deviceFilter' = v
  /\ LoadData(v, useDateRange, dateStart, dateEnd)
  /\ lastOp' = "filter"
  /\ UNCHANGED <<mounted, data, chartData, dateStart, dateEnd, useDateRange, socketConnected,
                 transportConnected, lastApplied, scen>>
  /\ UNCHANGED <<listeners, sockets, interval, mlVars, searchVars, panelVars, devVars>>

\* onChange of the range checkbox, then the [loadData] effect.
SetUseDateRange(b) ==
  /\ mounted
  /\ b # useDateRange
  /\ useDateRange' = b
  /\ LoadData(deviceFilter, b, dateStart, dateEnd)
  /\ lastOp' = "filter"
  /\ UNCHANGED <<mounted, data, chartData, deviceFilter, dateStart, dateEnd, socketConnected,
                 transportConnected, lastApplied, scen>>
  /\ UNCHANGED <<listeners, sockets, interval, mlVars, searchVars, panelVars, devVars>>

\* onChange of the start input (rendered only in range mode), then the effect.
SetDateStart(v) ==
  /\ mounted
  /\ useDateRange
  /\ v # dateStart
  /\ dateStart' = v
  /\ LoadData(deviceFilter, useDateRange, v, dateEnd)
  /\ lastOp' = "filter"
  /\ UNCHANGED <<mounted, data, chartData, deviceFilter, dateEnd, useDateRange, socketConnected,
                 transportConnected, lastApplied, scen>>
  /\ UNCHANGED <<listeners, sockets, interval, mlVars, searchVars, panelVars, devVars>>

\* onChange of the end input (rendered only in range mode), then the effect.
SetDateEnd(v) ==
  /\ mounted
  /\ useDateRange
  /\ v # dateEnd
  /\ dateEnd' = v
  /\ LoadData(deviceFilter, useDateRange, dateStart, v)
  /\ lastOp' = "filter"
  /\ UNCHANGED <<mounted, data, chartData, deviceFilter, dateStart, useDateRange, socketConnected,
                 transportConnected, lastApplied, scen>>
  /\ UNCHANGED <<listeners, sockets, interval, mlVars, searchVars, panelVars, devVars>>

\* The "Actualiser" button: onClick={loadData}, disabled={loading}.
Refresh ==
  /\ mounted
  /\ ~loading
  /\ LoadData(deviceFilter, useDateRange, dateStart, dateEnd)
  /\ lastOp' = "refresh"
  /\ UNCHANGED <<mounted, data, chartData, deviceFilter, dateStart, dateEnd, useDateRange,
                 socketConnected, transportConnected, lastApplied, scen>>
  /\ UNCHANGED <<listeners, sockets, interval, mlVars, searchVars, panelVars, devVars>>

\* Mutant of SettleOk: the response is merged into the window instead of replacing it.
SettleOk_MergesWindow(req, body) ==
  /\ mounted
  /\ BagIn(req, inflight)
  /\ body \in ResponseTable[req]
  /\ data' = BatchWindow(req, body) \o data
  /\ chartData' = ChartData(data')
  /\ loading' = FALSE
  /\ inflight' = inflight (-) SetToBag({req})
  /\ lastApplied' = req
  /\ lastOp' = "batch"
  /\ UNCHANGED <<mounted, deviceFilter, dateStart, dateEnd, useDateRange, socketConnected,
                 transportConnected, scen>>
  /\ UNCHANGED <<listeners, sockets, interval, mlVars, searchVars, panelVars, devVars>>

\* Mutant of SettleOk: loading stays set while another request is in flight.
SettleOk_CountsRequests(req, body) ==
  /\ mounted
  /\ BagIn(req, inflight)
  /\ body \in ResponseTable[req]
  /\ data' = BatchWindow(req, body)
  /\ chartData' = ChartData(data')
  /\ loading' = (inflight (-) SetToBag({req}) # EmptyBag)
  /\ inflight' = inflight (-) SetToBag({req})
  /\ lastApplied' = req
  /\ lastOp' = "batch"
  /\ UNCHANGED <<mounted, deviceFilter, dateStart, dateEnd, useDateRange, socketConnected,
                 transportConnected, scen>>
  /\ UNCHANGED <<listeners, sockets, interval, mlVars, searchVars, panelVars, devVars>>

\* The awaited request req resolves with body: setData(...), then finally setLoading(false).
SettleOk(req, body) ==
  /\ mounted
  /\ BagIn(req, inflight)
  /\ body \in ResponseTable[req]
  /\ data' = BatchWindow(req, body)
  /\ chartData' = ChartData(data')
  /\ loading' = FALSE
  /\ inflight' = inflight (-) SetToBag({req})
  /\ lastApplied' = req
  /\ lastOp' = "batch"
  /\ UNCHANGED <<mounted, deviceFilter, dateStart, dateEnd, useDateRange, socketConnected,
                 transportConnected, scen>>
  /\ UNCHANGED <<listeners, sockets, interval, mlVars, searchVars, panelVars, devVars>>

\* Mutant of SettleFail: the catch leaves the window as it is.
SettleFail_KeepsWindow(req) ==
  /\ mounted
  /\ BagIn(req, inflight)
  /\ loading' = FALSE
  /\ inflight' = inflight (-) SetToBag({req})
  /\ lastApplied' = req
  /\ lastOp' = "failed"
  /\ UNCHANGED <<mounted, data, chartData, deviceFilter, dateStart, dateEnd, useDateRange,
                 socketConnected, transportConnected, scen>>
  /\ UNCHANGED <<listeners, sockets, interval, mlVars, searchVars, panelVars, devVars>>

\* The awaited request req rejects (network error, error status, 15 s timeout):
\* catch setData([]), then finally setLoading(false).
SettleFail(req) ==
  /\ mounted
  /\ BagIn(req, inflight)
  /\ data' = <<>>
  /\ chartData' = ChartData(data')
  /\ loading' = FALSE
  /\ inflight' = inflight (-) SetToBag({req})
  /\ lastApplied' = req
  /\ lastOp' = "failed"
  /\ UNCHANGED <<mounted, deviceFilter, dateStart, dateEnd, useDateRange, socketConnected,
                 transportConnected, scen>>
  /\ UNCHANGED <<listeners, sockets, interval, mlVars, searchVars, panelVars, devVars>>

\* -------------------------------------------------- monitoring: live channel
\* The validation of line 114.
IsValidDoc(d) == d.isObject /\ d.device_id.t = "string" /\ d.timestamp.t = "string"

\* The row built at lines 115-124 (non-number metrics become undefined).
RowOfDoc(d) ==
  Row(d.device_id.v, d.timestamp.v,
      IF d.temperature.t = "number" THEN Some(d.temperature.v) ELSE None)

\* Mutant of ApplyLive: the row is inserted in timestamp order instead of at the head.
ApplyLive_SortOnInsert(prev, row) ==
  LET older == SelectSeq(prev, LAMBDA r : r.timestamp <= row.timestamp)
      newer == SelectSeq(prev, LAMBDA r : r.timestamp > row.timestamp)
  IN SliceTo(newer \o <<row>> \o older, C)

\* Mutant of ApplyLive: an equal sample already in the window is dropped.
ApplyLive_Dedupes(prev, row) ==
  SliceTo(<<row>> \o SelectSeq(prev, LAMBDA r : r # row), C)

\* setData((prev) => [row, ...prev].slice(0, 200))
ApplyLive(prev, row) == SliceTo(<<row>> \o prev, C)

\* The events the socket effect registers a listener for (lines 109-111).
SocketEvents == {"connect", "disconnect", "device_data"}

\* Observer of the event sequence connect, event, disconnect, connect.
Scenario == <<"connect", "device_data", "disconnect", "connect">>
ScenStep(k, ev) ==
  IF k < Len(Scenario) /\ Scenario[k + 1] = ev THEN k + 1
  ELSE IF ev = "connect" THEN 1
  ELSE 0

\* socket.on("connect", () => setSocketConnected(true)); the transport sets its
\* connected flag before it emits.
OnConnect ==
  /\ mounted
  /\ BagIn("connect", listeners)
  /\ transportConnected' = TRUE
  /\ socketConnected' = TRUE
  /\ lastOp' = "connect"
  /\ scen' = ScenStep(scen, "connect")
  /\ UNCHANGED <<mounted, data, chartData, loading, deviceFilter, dateStart, dateEnd, useDateRange,
                 inflight, lastApplied>>
  /\ UNCHANGED <<listeners, sockets, interval, mlVars, searchVars, panelVars, devVars>>

\* Mutant of OnDisconnect: the handler forgets to flip the displayed state.
OnDisconnect_KeepsState ==
  /\ mounted
  /\ BagIn("disconnect", listeners)
  /\ transportConnected' = FALSE
  /\ lastOp' = "disconnect"
  /\ scen' = ScenStep(scen, "disconnect")
  /\ UNCHANGED <<mounted, data, chartData, loading, deviceFilter, dateStart, dateEnd,
                 useDateRange, socketConnected, inflight, lastApplied>>
  /\ UNCHANGED <<listeners, sockets, interval, mlVars, searchVars, panelVars, devVars>>

\* socket.on("disconnect", () => setSocketConnected(false))
OnDisconnect ==
  /\ mounted
  /\ BagIn("disconnect", listeners)
  /\ transportConnected' = FALSE
  /\ socketConnected' = FALSE
  /\ lastOp' = "disconnect"
  /\ scen' = ScenStep(scen, "disconnect")
  /\ UNCHANGED <<mounted, data, chartData, loading, deviceFilter, dateStart, dateEnd, useDateRange,
                 inflight, lastApplied>>
  /\ UNCHANGED <<listeners, sockets, interval, mlVars, searchVars, panelVars, devVars>>

\* One delivered event runs every listener registered for it, in turn.
RECURSIVE Deliver(_, _, _)
Deliver(prev, row, n) == IF n = 0 THEN prev ELSE Deliver(ApplyLive(prev, row), row, n - 1)

\* Mutant of OnDeviceData: the listener ignores samples of devices other than the filtered one.
OnDeviceData_AppliesFilter(doc) ==
  /\ mounted
  /\ BagIn("device_data", listeners)
  /\ IsValidDoc(doc) => (Trim(deviceFilter) = "" \/ RowOfDoc(doc).device_id = Trim(deviceFilter))
  /\ socketConnected' = TRUE
  /\ IF IsValidDoc(doc)
       THEN /\ data' = Deliver(data, RowOfDoc(doc), CopiesIn("device_data", listeners))
            /\ lastOp' = "live"
       ELSE /\ data' = data
            /\ lastOp' = "dropped"
  /\ chartData' = ChartData(data')
  /\ scen' = ScenStep(scen, "device_data")
  /\ UNCHANGED <<mounted, loading, deviceFilter, dateStart, dateEnd, useDateRange,
                 transportConnected, inflight, lastApplied>>
  /\ UNCHANGED <<listeners, sockets, interval, mlVars, searchVars, panelVars, devVars>>

\* socket.on("device_data", (doc) => ...), lines 111-127. The listener runs whenever
\* the transport emits the event; it does not consult socket.connected.
OnDeviceData(doc) ==
  /\ mounted
  /\ BagIn("device_data", listeners)
  /\ socketConnected' = TRUE
  /\ IF IsValidDoc(doc)
       THEN /\ data' = Deliver(data, RowOfDoc(doc), CopiesIn("device_data", listeners))
            /\ lastOp' = "live"
       ELSE /\ data' = data
            /\ lastOp' = "dropped"
  /\ chartData' = ChartData(data')
  /\ scen' = ScenStep(scen, "device_data")
  /\ UNCHANGED <<mounted, loading, deviceFilter, dateStart, dateEnd, useDateRange,
                 transportConnected, inflight, lastApplied>>
  /\ UNCHANGED <<listeners, sockets, interval, mlVars, searchVars, panelVars, devVars>>

\* The transport's own connected flag, which the interval callback reads at line
\* 129, turns true without a connect event having reached the listener.
TransportConnects ==
  /\ mounted
  /\ ~transportConnected
  /\ transportConnected' = TRUE
  /\ UNCHANGED <<mounted, data, chartData, loading, deviceFilter, dateStart, dateEnd, useDateRange,
                 socketConnected, inflight, lastApplied, lastOp, scen>>
  /\ UNCHANGED <<listeners, sockets, interval, mlVars, searchVars, panelVars, devVars>>

\* Mutant of LivenessTick: the displayed connectivity mirrors the transport's flag.
LivenessTick_Mirrors ==
  /\ mounted
  /\ interval
  /\ socketConnected' = transportConnected
  /\ lastOp' = "tick"
  /\ UNCHANGED <<mounted, data, chartData, loading, deviceFilter, dateStart, dateEnd, useDateRange,
                 transportConnected, inflight, lastApplied, scen>>
  /\ UNCHANGED <<listeners, sockets, interval, mlVars, searchVars, panelVars, devVars>>

\* setInterval(() => { if (socketRef.current?.connected) setSocketConnected(true) }, 1000)
LivenessTick ==
  /\ mounted
  /\ interval
  /\ socketConnected' = (IF transportConnected THEN TRUE ELSE socketConnected)
  /\ lastOp' = "tick"
  /\ UNCHANGED <<mounted, data, chartData, loading, deviceFilter, dateStart, dateEnd, useDateRange,
                 transportConnected, inflight, lastApplied, scen>>
  /\ UNCHANGED <<listeners, sockets, interval, mlVars, searchVars, panelVars, devVars>>

\* The ML prediction panel of the monitoring view (res.data ?? null).
NoPredictionResult == [present |-> FALSE, device_id |-> ""]
PredictionResult(dev) == [present |-> TRUE, device_id |-> dev]
PredictionResults(dev) == {PredictionResult(dev), NoPredictionResult}

\* The ids the ML prediction select offers, and its placeholder.
PredictDeviceOptions == {"", "d1", "d2"}

\* onChange of the ML prediction select (line 243).
SelectPredictDevice(dev) ==
  /\ mounted
  /\ dev # predictDeviceId
  /\ predictDeviceId' = dev
  /\ prediction' = NoPredictionResult
  /\ predictionError' = "null"
  /\ UNCHANGED <<predictionLoading, predictionReqs>>
  /\ UNCHANGED <<mounted, data, chartData, loading, deviceFilter, dateStart, dateEnd, useDateRange,
                 socketConnected, transportConnected, listeners, sockets, interval, inflight,
                 lastApplied, lastOp, scen>>
  /\ UNCHANGED <<searchVars, panelVars, devVars>>

\* Mutant of FetchPrediction: the button stays enabled while a request is loading.
FetchPrediction_IgnoresLoading ==
  /\ mounted
  /\ Trim(predictDeviceId) # ""
  /\ predictionLoading' = TRUE
  /\ predictionError' = "null"
  /\ prediction' = NoPredictionResult
  /\ predictionReqs' = predictionReqs (+) SetToBag({Trim(predictDeviceId)})
  /\ UNCHANGED predictDeviceId
  /\ UNCHANGED <<mounted, data, chartData, loading, deviceFilter, dateStart, dateEnd, useDateRange,
                 socketConnected, transportConnected, listeners, sockets, interval, inflight,
                 lastApplied, lastOp, scen>>
  /\ UNCHANGED <<searchVars, panelVars, devVars>>

\* fetchPrediction up to its request (lines 140-147), from the button of lines
\* 250-257, which is disabled while loading or without a device.
FetchPrediction ==
  /\ mounted
  /\ ~predictionLoading
  /\ Trim(predictDeviceId) # ""
  /\ predictionLoading' = TRUE
  /\ predictionError' = "null"
  /\ prediction' = NoPredictionResult
  /\ predictionReqs' = predictionReqs (+) SetToBag({Trim(predictDeviceId)})
  /\ UNCHANGED predictDeviceId
  /\ UNCHANGED <<mounted, data, chartData, loading, deviceFilter, dateStart, dateEnd, useDateRange,
                 socketConnected, transportConnected, listeners, sockets, interval, inflight,
                 lastApplied, lastOp, scen>>
  /\ UNCHANGED <<searchVars, panelVars, devVars>>

\* Mutant of PredictionResolve: an answer for a device other than the selected one is dropped.
PredictionResolve_ChecksSelection(dev, body) ==
  /\ mounted
  /\ BagIn(dev, predictionReqs)
  /\ body \in PredictionResults(dev)
  /\ prediction' = (IF dev = Trim(predictDeviceId) THEN body ELSE prediction)
  /\ predictionLoading' = FALSE
  /\ predictionReqs' = predictionReqs (-) SetToBag({dev})
  /\ UNCHANGED <<predictDeviceId, predictionError>>
  /\ UNCHANGED <<mounted, data, chartData, loading, deviceFilter, dateStart, dateEnd, useDateRange,
                 socketConnected, transportConnected, listeners, sockets, interval, inflight,
                 lastApplied, lastOp, scen>>
  /\ UNCHANGED <<searchVars, panelVars, devVars>>

\* setPrediction(res.data ?? null), then finally (lines 148, 152-154).
PredictionResolve(dev, body) ==
  /\ mounted
  /\ BagIn(dev, predictionReqs)
  /\ body \in PredictionResults(dev)
  /\ prediction' = body
  /\ predictionLoading' = FALSE
  /\ predictionReqs' = predictionReqs (-) SetToBag({dev})
  /\ UNCHANGED <<predictDeviceId, predictionError>>
  /\ UNCHANGED <<mounted, data, chartData, loading, deviceFilter, dateStart, dateEnd, useDateRange,
                 socketConnected, transportConnected, listeners, sockets, interval, inflight,
                 lastApplied, lastOp, scen>>
  /\ UNCHANGED <<searchVars, panelVars, devVars>>

\* Mutant of PredictionReject: the catch without the finally.
PredictionReject_KeepsLoading(dev) ==
  /\ mounted
  /\ BagIn(dev, predictionReqs)
  /\ predictionError' = "Prediction indisponible pour ce device."
  /\ prediction' = NoPredictionResult
  /\ predictionReqs' = predictionReqs (-) SetToBag({dev})
  /\ UNCHANGED <<predictDeviceId, predictionLoading>>
  /\ UNCHANGED <<mounted, data, chartData, loading, deviceFilter, dateStart, dateEnd, useDateRange,
                 socketConnected, transportConnected, listeners, sockets, interval, inflight,
                 lastApplied, lastOp, scen>>
  /\ UNCHANGED <<searchVars, panelVars, devVars>>

\* catch, then finally (lines 149-154).
PredictionReject(dev) ==
  /\ mounted
  /\ BagIn(dev, predictionReqs)
  /\ predictionError' = "Prediction indisponible pour ce device."
  /\ prediction' = NoPredictionResult
  /\ predictionLoading' = FALSE
  /\ predictionReqs' = predictionReqs (-) SetToBag({dev})
  /\ UNCHANGED predictDeviceId
  /\ UNCHANGED <<mounted, data, chartData, loading, deviceFilter, dateStart, dateEnd, useDateRange,
                 socketConnected, transportConnected, listeners, sockets, interval, inflight,
                 lastApplied, lastOp, scen>>
  /\ UNCHANGED <<searchVars, panelVars, devVars>>

\* The state of a freshly mounted view after its effects ran: loadData() was
\* called with the initial filter, the socket was created and is connecting.
MountedState ==
  /\ mounted' = TRUE
  /\ data' = <<>>
  /\ chartData' = ChartData(data')
  /\ loading' = TRUE
  /\ deviceFilter' = ""
  /\ dateStart' = ""
  /\ dateEnd' = ""
  /\ useDateRange' = FALSE
  /\ socketConnected' = FALSE
  /\ transportConnected' = FALSE
  /\ listeners' = listeners (+) SetToBag(SocketEvents)
  /\ sockets' = sockets + 1
  /\ interval' = TRUE
  /\ inflight' = SetToBag({AllRequest})
  /\ lastApplied' = NoRequest
  /\ predictDeviceId' = ""
  /\ prediction' = NoPredictionResult
  /\ predictionLoading' = FALSE
  /\ predictionError' = "null"
  /\ predictionReqs' = EmptyBag

\* Mutant of Unmount: the cleanup leaves the listeners and the interval in place.
Unmount_KeepsListeners ==
  /\ mounted
  /\ mounted' = FALSE
  /\ data' = <<>>
  /\ chartData' = ChartData(data')
  /\ loading' = FALSE
  /\ deviceFilter' = ""
  /\ dateStart' = ""
  /\ dateEnd' = ""
  /\ useDateRange' = FALSE
  /\ socketConnected' = FALSE
  /\ transportConnected' = FALSE
  /\ inflight' = EmptyBag
  /\ lastApplied' = NoRequest
  /\ lastOp' = "unmount"
  /\ scen' = 0
  /\ UNCHANGED <<listeners, sockets, interval, mlVars, searchVars, panelVars, devVars>>

\* Mutant of Unmount: the cleanup removes the listeners and the interval but
\* does not disconnect the socket.
Unmount_KeepsConnection ==
  /\ mounted
  /\ mounted' = FALSE
  /\ data' = <<>>
  /\ chartData' = ChartData(data')
  /\ loading' = FALSE
  /\ deviceFilter' = ""
  /\ dateStart' = ""
  /\ dateEnd' = ""
  /\ useDateRange' = FALSE
  /\ socketConnected' = FALSE
  /\ listeners' = listeners (-) SetToBag(SocketEvents)
  /\ interval' = FALSE
  /\ inflight' = EmptyBag
  /\ lastApplied' = NoRequest
  /\ lastOp' = "unmount"
  /\ scen' = 0
  /\ UNCHANGED <<sockets, transportConnected, mlVars, searchVars, panelVars, devVars>>

\* The effect cleanup of lines 131-137 on unmount. The component's state is
\* discarded with it; requests still in flight settle into no-op setters.
Unmount ==
  /\ mounted
  /\ mounted' = FALSE
  /\ data' = <<>>
  /\ chartData' = ChartData(data')
  /\ loading' = FALSE
  /\ deviceFilter' = ""
  /\ dateStart' = ""
  /\ dateEnd' = ""
  /\ useDateRange' = FALSE
  /\ socketConnected' = FALSE
  /\ transportConnected' = FALSE
  /\ listeners' = listeners (-) SetToBag(SocketEvents)
  /\ sockets' = sockets - 1
  /\ interval' = FALSE
  /\ inflight' = EmptyBag
  /\ lastApplied' = NoRequest
  /\ lastOp' = "unmount"
  /\ scen' = 0
  /\ predictDeviceId' = ""
  /\ prediction' = NoPredictionResult
  /\ predictionLoading' = FALSE
  /\ predictionError' = "null"
  /\ predictionReqs' = EmptyBag
  /\ UNCHANGED <<searchVars, panelVars, devVars>>

\* Navigating back to the view: a new component instance.
Mount ==
  /\ ~mounted
  /\ MountedState
  /\ lastOp' = "mount"
  /\ scen' = 0
  /\ UNCHANGED <<searchVars, panelVars, devVars>>

\* ------------------------------------------------------ weather: city search
SEARCH_DEBOUNCE_MS == 350

\* Largest number of suggestion queries in flight at once.
MaxSearchInflight == 2
\* Largest number of items in a geocoding answer.
MaxItems == 1
\* The burst counter saturates here.
MaxBurst == 3

\* Values the user may give the search input, and the time steps of the clock.
InputValues == {"", " ", "Pa", "Pa ", "Ly"}
TimeSteps == {200}

City(name, country, lat, lon) == [name |-> name, country |-> country, latitude |-> lat, longitude |-> lon]
CityParis == City("Paris", "France", 48, 2)

\* Raw items of a geocoding answer, before validation.
Item(name, country, lat, lon) == [name |-> name, country |-> country, latitude |-> lat, longitude |-> lon]
ItemParis == Item(JsString("Paris"), "France", JsNumber(48), JsNumber(2))
ItemNoLatitude == Item(JsString("Paris"), "France", JsUndefined, JsNumber(2))
Items == {ItemParis, ItemNoLatitude}

ToSuggestion(x) == City(x.name.v, x.country, x.latitude.v, x.longitude.v)

\* The filter of normalizeSuggestions (line 290).
IsSuggestion(x) == x.name.t = "string" /\ x.latitude.t = "number" /\ x.longitude.t = "number"

\* The filter of fetchCitiesOpenMeteo (line 119): name != null, numeric coordinates.
IsOpenMeteoResult(x) == x.name.t # "undefined" /\ x.latitude.t = "number" /\ x.longitude.t = "number"

MapSeq(s, F(_)) == [k \in 1..Len(s) |-> F(s[k])]

\* Answers of the backend search-city endpoint: an array, an object with a
\* results array, or anything else.
PrimaryBodies == [shape : {"array", "results", "other"}, items : SeqUpTo(Items, MaxItems)]

\* normalizeSuggestions(res.data), lines 288-297.
normalizeSuggestions(body) ==
  IF body.shape \in {"array", "results"}
    THEN MapSeq(SelectSeq(body.items, IsSuggestion), ToSuggestion)
    ELSE <<>>

\* Answers of the public geocoding API: an error status, or a JSON document with
\* or without a results array.
FallbackBodies == [ok : BOOLEAN, hasResults : BOOLEAN, items : SeqUpTo(Items, MaxItems)]

\* fetchCitiesOpenMeteo once its fetch has answered, lines 115-120.
fetchCitiesOpenMeteo(body) ==
  IF ~body.ok THEN <<>>
  ELSE IF ~body.hasResults THEN <<>>
  ELSE MapSeq(SelectSeq(body.items, IsOpenMeteoResult), ToSuggestion)

\* The messages shown under the search input.
NoMessage == [kind |-> "none", q |-> ""]
NoResultsMessage(q) == [kind |-> "noresults", q |-> q]
UnavailableMessage == [kind |-> "unavailable", q |-> ""]

\* Mutant of SuggestionMessage: an empty answer is reported as a failure.
SuggestionMessage_AsFailure(list, value) ==
  IF Len(list) = 0 THEN UnavailableMessage ELSE NoMessage

\* list.length === 0 ? `Aucune ville trouvée pour « ${value.trim()} »` : null
SuggestionMessage(list, value) ==
  IF Len(list) = 0 THEN NoResultsMessage(Trim(value)) ELSE NoMessage

NoTimer == [value |-> "", age |-> -1]
Timer(value, age) == [value |-> value, age |-> age]
\* A suggestion query: the value fetchSuggestions was called with, and the q
\* parameter of its URL (value.trim(), lines 303 and 311).
SuggestRequest(value, stage) == [value |-> value, q |-> Trim(value), stage |-> stage]
SearchStep(op, q) == [op |-> op, q |-> q]

Elapse(age, dt) == Min(age + dt, SEARCH_DEBOUNCE_MS)

\* Mutant of OnInputChange: the previous timer is not cleared.
OnInputChange_NoClear(value) ==
  /\ value # cityQuery
  /\ cityQuery' = value
  /\ error' = "null"
  /\ searchError' = NoMessage
  /\ IF Trim(value) = ""
       THEN /\ timers' = timers
            /\ searchTimeoutRef' = NoTimer
            /\ citySuggestions' = <<>>
            /\ suggestionsOpen' = FALSE
       ELSE /\ timers' = timers \cup {Timer(value, 0)}
            /\ searchTimeoutRef' = Timer(value, 0)
            /\ UNCHANGED <<citySuggestions, suggestionsOpen>>
  /\ sinceInput' = 0
  /\ lastTyped' = value
  /\ burstLen' = (IF sinceInput < SEARCH_DEBOUNCE_MS THEN Min(burstLen + 1, MaxBurst) ELSE 1)
  /\ sentSinceInput' = 0
  /\ lastSearch' = SearchStep("input", value)
  /\ UNCHANGED weatherMounted
  /\ UNCHANGED <<searching, searchReqs, lastSent>>
  /\ UNCHANGED <<monVars, devVars, panelVars>>

\* onInputChange(value), lines 325-332: the input's onChange.
OnInputChange(value) ==
  /\ value # cityQuery
  /\ cityQuery' = value
  /\ error' = "null"
  /\ searchError' = NoMessage
  /\ LET cleared == IF searchTimeoutRef # NoTimer THEN timers \ {searchTimeoutRef} ELSE timers
     IN IF Trim(value) = ""
          THEN /\ timers' = cleared
               /\ searchTimeoutRef' = NoTimer
               /\ citySuggestions' = <<>>
               /\ suggestionsOpen' = FALSE
          ELSE /\ timers' = cleared \cup {Timer(value, 0)}
               /\ searchTimeoutRef' = Timer(value, 0)
               /\ UNCHANGED <<citySuggestions, suggestionsOpen>>
  /\ sinceInput' = 0
  /\ lastTyped' = value
  /\ burstLen' = (IF sinceInput < SEARCH_DEBOUNCE_MS THEN Min(burstLen + 1, MaxBurst) ELSE 1)
  /\ sentSinceInput' = 0
  /\ lastSearch' = SearchStep("input", value)
  /\ UNCHANGED weatherMounted
  /\ UNCHANGED <<searching, searchReqs, lastSent>>
  /\ UNCHANGED <<monVars, devVars, panelVars>>

\* dt milliseconds pass: every armed timer ages.
Advance(dt) ==
  /\ sinceInput < SEARCH_DEBOUNCE_MS
  /\ sinceInput' = Elapse(sinceInput, dt)
  /\ timers' = {Timer(t.value, Elapse(t.age, dt)) : t \in timers}
  /\ searchTimeoutRef' = IF searchTimeoutRef = NoTimer THEN NoTimer
                         ELSE Timer(searchTimeoutRef.value, Elapse(searchTimeoutRef.age, dt))
  /\ UNCHANGED <<cityQuery, citySuggestions, suggestionsOpen, searching, searchError, error,
                 searchReqs, lastTyped, burstLen, sentSinceInput, lastSent, lastSearch, weatherMounted>>
  /\ UNCHANGED <<monVars, devVars, panelVars>>

\* The timer callback of line 331 for a due timer t, with fetchSuggestions(value)
\* up to its request (lines 300-303).
TimerFire(t) ==
  /\ t \in timers
  /\ t.age >= SEARCH_DEBOUNCE_MS
  /\ timers' = timers \ {t}
  /\ searchTimeoutRef' = NoTimer
  /\ IF Trim(t.value) = ""
       THEN /\ citySuggestions' = <<>>
            /\ suggestionsOpen' = FALSE
            /\ searchError' = NoMessage
            /\ UNCHANGED <<searching, searchReqs, sentSinceInput, lastSent>>
       ELSE /\ BagCardinality(searchReqs) < MaxSearchInflight
            /\ searching' = TRUE
            /\ searchError' = NoMessage
            /\ searchReqs' = searchReqs (+) SetToBag({SuggestRequest(t.value, "primary")})
            /\ sentSinceInput' = sentSinceInput + 1
            /\ lastSent' = [q |-> Trim(t.value), at |-> sinceInput]
            /\ UNCHANGED <<citySuggestions, suggestionsOpen>>
  /\ lastSearch' = SearchStep("sent", t.value)
  /\ UNCHANGED weatherMounted
  /\ UNCHANGED <<cityQuery, error, sinceInput, lastTyped, burstLen>>
  /\ UNCHANGED <<monVars, devVars, panelVars>>

\* What a suggestion query writes when a source answered with list (lines 305-308,
\* 312-315), then finally setSearching(false).
ShowSuggestions(req, list) ==
  /\ citySuggestions' = list
  /\ suggestionsOpen' = (Len(list) > 0)
  /\ searchError' = SuggestionMessage(list, req.value)
  /\ searching' = FALSE
  /\ searchReqs' = searchReqs (-) SetToBag({req})
  /\ lastSearch' = SearchStep(IF Len(list) = 0 THEN "empty" ELSE "found", req.value)
  /\ UNCHANGED weatherMounted

\* The backend answers the suggestion query req.
PrimaryOk(req, body) ==
  /\ BagIn(req, searchReqs)
  /\ req.stage = "primary"
  /\ ShowSuggestions(req, normalizeSuggestions(body))
  /\ UNCHANGED <<cityQuery, error, searchTimeoutRef, timers, sinceInput, lastTyped, burstLen,
                 sentSinceInput, lastSent>>
  /\ UNCHANGED <<monVars, devVars, panelVars>>

\* The backend request of req fails: the catch handler asks the public source.
PrimaryFail(req) ==
  /\ BagIn(req, searchReqs)
  /\ req.stage = "primary"
  /\ searchReqs' = (searchReqs (-) SetToBag({req})) (+) SetToBag({SuggestRequest(req.value, "fallback")})
  /\ UNCHANGED <<cityQuery, citySuggestions, suggestionsOpen, searching, searchError, error,
                 searchTimeoutRef, timers, sinceInput, lastTyped, burstLen, sentSinceInput, lastSent,
                 lastSearch, weatherMounted>>
  /\ UNCHANGED <<monVars, devVars, panelVars>>

\* The public source answers req (an error status included).
FallbackOk(req, body) ==
  /\ BagIn(req, searchReqs)
  /\ req.stage = "fallback"
  /\ ShowSuggestions(req, fetchCitiesOpenMeteo(body))
  /\ UNCHANGED <<cityQuery, error, searchTimeoutRef, timers, sinceInput, lastTyped, burstLen,
                 sentSinceInput, lastSent>>
  /\ UNCHANGED <<monVars, devVars, panelVars>>

\* The public source throws (network error, invalid JSON): lines 316-320.
FallbackThrow(req) ==
  /\ BagIn(req, searchReqs)
  /\ req.stage = "fallback"
  /\ citySuggestions' = <<>>
  /\ suggestionsOpen' = FALSE
  /\ searchError' = UnavailableMessage
  /\ searching' = FALSE
  /\ searchReqs' = searchReqs (-) SetToBag({req})
  /\ lastSearch' = SearchStep("unavailable", req.value)
  /\ UNCHANGED weatherMounted
  /\ UNCHANGED <<cityQuery, error, searchTimeoutRef, timers, sinceInput, lastTyped, burstLen,
                 sentSinceInput, lastSent>>
  /\ UNCHANGED <<monVars, devVars, panelVars>>

\* onFocus: citySuggestions.length > 0 && setSuggestionsOpen(true)
OnFocus ==
  /\ Len(citySuggestions) > 0
  /\ ~suggestionsOpen
  /\ suggestionsOpen' = TRUE
  /\ UNCHANGED <<cityQuery, citySuggestions, searching, searchError, error, searchTimeoutRef,
                 timers, searchReqs, sinceInput, lastTyped, burstLen, sentSinceInput, lastSent, lastSearch, weatherMounted>>
  /\ UNCHANGED <<monVars, devVars, panelVars>>

\* onBlur: setTimeout(() => setSuggestionsOpen(false), 220), at its firing.
OnBlur ==
  /\ suggestionsOpen
  /\ suggestionsOpen' = FALSE
  /\ UNCHANGED <<cityQuery, citySuggestions, searching, searchError, error, searchTimeoutRef,
                 timers, searchReqs, sinceInput, lastTyped, burstLen, sentSinceInput, lastSent, lastSearch, weatherMounted>>
  /\ UNCHANGED <<monVars, devVars, panelVars>>

SearchInit ==
  /\ cityQuery = "Paris"
  /\ citySuggestions = <<>>
  /\ suggestionsOpen = FALSE
  /\ searching = FALSE
  /\ searchError = NoMessage
  /\ error = "null"
  /\ searchTimeoutRef = NoTimer
  /\ timers = {}
  /\ searchReqs = EmptyBag
  /\ sinceInput = SEARCH_DEBOUNCE_MS
  /\ lastTyped = "Paris"
  /\ burstLen = 0
  /\ sentSinceInput = 0
  /\ lastSent = [q |-> "", at |-> 0]
  /\ lastSearch = SearchStep("none", "")
  /\ weatherMounted = TRUE

\* --------------------------------------- weather: device-keyed predictions
\* Values of the device selects: "" is the "choose a device" option.
DeviceOptions == {"", "d1", "d2"}

NoPrediction == [present |-> FALSE, device_id |-> "", city |-> ""]
Prediction(dev, city) == [present |-> TRUE, device_id |-> dev, city |-> city]
PredictionRequest(dev, city) == [device_id |-> dev, city |-> city]

\* What a prediction endpoint may answer to req: a document, or nothing (res.data ?? null).
PredictionBodies(req) == {Prediction(req.device_id, req.city), NoPrediction}

NoOutcome == [kind |-> "none", data |-> NoPrediction]
Succeeded(body) == [kind |-> "ok", data |-> body]
Failed == [kind |-> "fail", data |-> NoPrediction]

\* onChange of the weather-aware device select (line 551).
SelectWeatherAwareDevice(dev) ==
  /\ dev # weatherAwareDeviceId
  /\ weatherAwareDeviceId' = dev
  /\ weatherAwareResult' = NoPrediction
  /\ weatherAwareError' = "null"
  /\ weatherAwareOutcome' = NoOutcome
  /\ UNCHANGED <<weatherAwareLoading, weatherAwareReqs>>
  /\ UNCHANGED <<selectedCity, prediction24hVars>>
  /\ UNCHANGED <<lastResolved, monVars, devVars, searchVars, locVars>>

\* fetchWeatherAwarePrediction up to its request (lines 257-262), behind the
\* button of line 556 (disabled while loading or without a device).
FetchWeatherAwarePrediction ==
  /\ ~weatherAwareLoading
  /\ Trim(weatherAwareDeviceId) # ""
  /\ weatherAwareLoading' = TRUE
  /\ weatherAwareError' = "null"
  /\ weatherAwareResult' = NoPrediction
  /\ weatherAwareReqs' = weatherAwareReqs (+) SetToBag({PredictionRequest(Trim(weatherAwareDeviceId), selectedCity.name)})
  /\ weatherAwareOutcome' = NoOutcome
  /\ UNCHANGED <<weatherAwareDeviceId, selectedCity, prediction24hVars>>
  /\ UNCHANGED <<lastResolved, monVars, devVars, searchVars, locVars>>

\* .then((res) => setWeatherAwareResult(res.data ?? null)), then finally (lines 263, 265).
WeatherAwareResolve(req, body) ==
  /\ BagIn(req, weatherAwareReqs)
  /\ body \in PredictionBodies(req)
  /\ weatherAwareResult' = body
  /\ weatherAwareLoading' = FALSE
  /\ weatherAwareReqs' = weatherAwareReqs (-) SetToBag({req})
  /\ weatherAwareOutcome' = Succeeded(body)
  /\ UNCHANGED <<weatherAwareDeviceId, weatherAwareError, selectedCity, prediction24hVars>>
  /\ lastResolved' = "weatherAware"
  /\ UNCHANGED <<monVars, devVars, searchVars, locVars>>

\* Mutant of WeatherAwareReject: the failure handler clears the 24h panel too.
WeatherAwareReject_ClearsBoth(req) ==
  /\ BagIn(req, weatherAwareReqs)
  /\ weatherAwareError' = "Prediction weather-aware indisponible."
  /\ weatherAwareResult' = NoPrediction
  /\ weatherAwareLoading' = FALSE
  /\ weatherAwareReqs' = weatherAwareReqs (-) SetToBag({req})
  /\ weatherAwareOutcome' = Failed
  /\ prediction24hData' = NoPrediction
  /\ UNCHANGED <<weatherAwareDeviceId, selectedCity, prediction24hDeviceId, prediction24hLoading,
                 prediction24hError, prediction24hReqs, prediction24hOutcome>>
  /\ lastResolved' = "weatherAware"
  /\ UNCHANGED <<monVars, devVars, searchVars, locVars>>

\* .catch(() => { setWeatherAwareError(...); setWeatherAwareResult(null) }), then finally
\* (lines 264-265).
WeatherAwareReject(req) ==
  /\ BagIn(req, weatherAwareReqs)
  /\ weatherAwareError' = "Prediction weather-aware indisponible."
  /\ weatherAwareResult' = NoPrediction
  /\ weatherAwareLoading' = FALSE
  /\ weatherAwareReqs' = weatherAwareReqs (-) SetToBag({req})
  /\ weatherAwareOutcome' = Failed
  /\ UNCHANGED <<weatherAwareDeviceId, selectedCity, prediction24hVars>>
  /\ lastResolved' = "weatherAware"
  /\ UNCHANGED <<monVars, devVars, searchVars, locVars>>

\* onChange of the 24h device select (line 495).
SelectPrediction24hDevice(dev) ==
  /\ dev # prediction24hDeviceId
  /\ prediction24hDeviceId' = dev
  /\ prediction24hData' = NoPrediction
  /\ prediction24hError' = "null"
  /\ prediction24hOutcome' = NoOutcome
  /\ UNCHANGED <<prediction24hLoading, prediction24hReqs>>
  /\ UNCHANGED <<selectedCity, weatherAwareVars>>
  /\ UNCHANGED <<lastResolved, monVars, devVars, searchVars, locVars>>

\* fetchPrediction24h up to its request (lines 269-274), behind the button of
\* line 500 (disabled while loading or without a device).
FetchPrediction24h ==
  /\ ~prediction24hLoading
  /\ Trim(prediction24hDeviceId) # ""
  /\ prediction24hLoading' = TRUE
  /\ prediction24hError' = "null"
  /\ prediction24hData' = NoPrediction
  /\ prediction24hReqs' = prediction24hReqs (+) SetToBag({PredictionRequest(Trim(prediction24hDeviceId), selectedCity.name)})
  /\ prediction24hOutcome' = NoOutcome
  /\ UNCHANGED <<prediction24hDeviceId, selectedCity, weatherAwareVars>>
  /\ UNCHANGED <<lastResolved, monVars, devVars, searchVars, locVars>>

\* .then((res) => setPrediction24hData(res.data ?? null)), then finally (lines 275, 277).
Prediction24hResolve(req, body) ==
  /\ BagIn(req, prediction24hReqs)
  /\ body \in PredictionBodies(req)
  /\ prediction24hData' = body
  /\ prediction24hLoading' = FALSE
  /\ prediction24hReqs' = prediction24hReqs (-) SetToBag({req})
  /\ prediction24hOutcome' = Succeeded(body)
  /\ UNCHANGED <<prediction24hDeviceId, prediction24hError, selectedCity, weatherAwareVars>>
  /\ lastResolved' = "prediction24h"
  /\ UNCHANGED <<monVars, devVars, searchVars, locVars>>

\* .catch(() => { setPrediction24hError(...); setPrediction24hData(null) }), then finally
\* (lines 276-277).
Prediction24hReject(req) ==
  /\ BagIn(req, prediction24hReqs)
  /\ prediction24hError' = "Prediction 24h indisponible."
  /\ prediction24hData' = NoPrediction
  /\ prediction24hLoading' = FALSE
  /\ prediction24hReqs' = prediction24hReqs (-) SetToBag({req})
  /\ prediction24hOutcome' = Failed
  /\ UNCHANGED <<prediction24hDeviceId, selectedCity, weatherAwareVars>>
  /\ lastResolved' = "prediction24h"
  /\ UNCHANGED <<monVars, devVars, searchVars, locVars>>

\* ------------------------------------------ weather: location-keyed panels
CityLyon == City("Lyon", "France", 45, 4)

\* The cities a selection may name.
Cities == {CityParis, CityLyon}

NoWeather == [present |-> FALSE, city |-> "", source |-> "none"]
Weather(city, source) == [present |-> TRUE, city |-> city, source |-> source]
NoForecast == [present |-> FALSE, city |-> ""]
Forecast(city) == [present |-> TRUE, city |-> city]
NoAnalysis == [present |-> FALSE, city |-> "", devices |-> <<>>]
Analysis(city, devices) == [present |-> TRUE, city |-> city, devices |-> devices]

\* The device lists an analysis answer may carry, devices[i].device_id in order.
DeviceLists == {<<>>, <<"d1">>, <<"d2", "d1">>}

\* res.data ?? null of the analysis request.
AnalysisBodies(city) == {NoAnalysis} \cup {Analysis(city, devices) : devices \in DeviceLists}

\* One run of a location effect: the city of its closure (current), where its
\* promise chain stands, its `cancelled` flag, and the data it holds so far.
WeatherRun(c) == [city |-> c.name, stage |-> "primary", cancelled |-> FALSE, data |-> NoWeather]
LocationRun(c) == [city |-> c.name, cancelled |-> FALSE]

\* The effect cleanup: return () => { cancelled = true; }
Cancel(r) == [r EXCEPT !.cancelled = TRUE]
CancelAll(runs) == {Cancel(r) : r \in runs}
Active(runs) == {r \in runs : ~r.cancelled}

\* How the latest run of an effect ended and the data the panel held right after
\* its settlement; overlap records that the run before it was still awaiting its
\* answer when this one started.
Pending(runs, none) == [kind |-> "pending", data |-> none, overlap |-> Active(runs) # {}]
Done(outcome, kind, d) == [kind |-> kind, data |-> d, overlap |-> outcome.overlap]

\* What the backend may answer on /weather/current for a city: a document or
\* nothing, with or without pressure, wind and precipitation.
WeatherBodies == [present : BOOLEAN, missingEnriched : BOOLEAN]
\* fetchWeatherOpenMeteo: a document, null (error status, no `current`), or a throw.
OpenMeteoAnswers == {"data", "null", "throw"}

\* The body of the current-weather effect up to its await (lines 187-194).
StartWeather(c) ==
  /\ weatherReqs' = CancelAll(weatherReqs) \cup {WeatherRun(c)}
  /\ weatherLoading' = TRUE
  /\ error' = "null"
  /\ weatherOutcome' = Pending(weatherReqs, NoWeather)
  /\ UNCHANGED weather

\* The body of the forecast effect up to its request (lines 221-226).
StartForecast(c) ==
  /\ forecastReqs' = CancelAll(forecastReqs) \cup {LocationRun(c)}
  /\ forecastLoading' = TRUE
  /\ forecastError' = "null"
  /\ forecastOutcome' = Pending(forecastReqs, NoForecast)
  /\ UNCHANGED forecastData

\* The body of the analysis effect up to its request (lines 244-249).
StartAnalysis(c) ==
  /\ analysisReqs' = CancelAll(analysisReqs) \cup {LocationRun(c)}
  /\ analysisLoading' = TRUE
  /\ analysisError' = "null"
  /\ analysisOutcome' = Pending(analysisReqs, NoAnalysis)
  /\ UNCHANGED <<analysisData, sensorsData, sensorsLoading>>

\* Mutant of SelectCity: the selection also resets the prediction panels.
SelectCity_ResetsPredictions(c) ==
  /\ selectedCity' = c
  /\ cityQuery' = c.name
  /\ citySuggestions' = <<>>
  /\ suggestionsOpen' = FALSE
  /\ StartWeather(c)
  /\ StartForecast(c)
  /\ StartAnalysis(c)
  /\ weatherAwareResult' = NoPrediction
  /\ prediction24hData' = NoPrediction
  /\ UNCHANGED <<searching, searchError, searchTimeoutRef, timers, searchReqs, sinceInput,
                 lastTyped, burstLen, sentSinceInput, lastSent, lastSearch, weatherMounted>>
  /\ UNCHANGED <<lastResolved, weatherAwareDeviceId, weatherAwareLoading, weatherAwareError,
                 weatherAwareReqs, weatherAwareOutcome, prediction24hDeviceId,
                 prediction24hLoading, prediction24hError, prediction24hReqs,
                 prediction24hOutcome, answering, monVars, devVars>>

\* selectCity(c), lines 280-286, then the effects keyed on selectedCity and
\* retryCount: each cleans its previous run up and starts a new one.
selectCity(c) ==
  /\ selectedCity' = c
  /\ cityQuery' = c.name
  /\ citySuggestions' = <<>>
  /\ suggestionsOpen' = FALSE
  /\ StartWeather(c)
  /\ StartForecast(c)
  /\ StartAnalysis(c)
  /\ UNCHANGED <<predictionVars, answering, monVars, devVars>>

\* onMouseDown of a suggestion button (line 383): selectCity(c).
SelectCity(c) ==
  /\ selectCity(c)
  /\ UNCHANGED <<searching, searchError, searchTimeoutRef, timers, searchReqs, sinceInput,
                 lastTyped, burstLen, sentSinceInput, lastSent, lastSearch, weatherMounted>>

\* Values the user gives the input in the behaviours that submit a search.
SubmitInputs == {"", "Pa "}

\* A submitted search: the q captured by searchAndSelectFirst (line 335).
SubmitRequest(q, stage) == [value |-> q, q |-> q, stage |-> stage]

\* searchAndSelectFirst up to its request (lines 335-338).
searchAndSelectFirst ==
  /\ Trim(cityQuery) # ""
  /\ BagCardinality(searchReqs) < MaxSearchInflight
  /\ searching' = TRUE
  /\ searchError' = NoMessage
  /\ searchReqs' = searchReqs (+) SetToBag({SubmitRequest(Trim(cityQuery), "submit")})
  /\ lastSearch' = SearchStep("submit", Trim(cityQuery))
  /\ UNCHANGED weatherMounted
  /\ UNCHANGED <<cityQuery, citySuggestions, suggestionsOpen, error, searchTimeoutRef, timers,
                 sinceInput, lastTyped, burstLen, sentSinceInput, lastSent>>
  /\ UNCHANGED <<monVars, devVars, panelVars>>

\* The search button (line 376): disabled={searching || !cityQuery.trim()}.
ClickSearch ==
  /\ ~searching
  /\ searchAndSelectFirst

\* Enter in the input (line 372): the first suggestion when the list has one,
\* else a submitted search.
PressEnter ==
  IF Len(citySuggestions) > 0
    THEN /\ selectCity(citySuggestions[1])
         /\ lastSearch' = SearchStep("picked", citySuggestions[1].name)
         /\ UNCHANGED weatherMounted
         /\ UNCHANGED <<searching, searchError, searchTimeoutRef, timers, searchReqs, sinceInput,
                        lastTyped, burstLen, sentSinceInput, lastSent>>
    ELSE searchAndSelectFirst

\* Mutant of SubmitDone: committing the submitted search clears the pending settle timer.
SubmitDone_ClearsTimer(req, list) ==
  /\ searching' = FALSE
  /\ searchReqs' = searchReqs (-) SetToBag({req})
  /\ IF Len(list) > 0
       THEN /\ selectCity(list[1])
            /\ lastSearch' = SearchStep("selected", req.q)
            /\ UNCHANGED weatherMounted
            /\ UNCHANGED searchError
       ELSE /\ searchError' = NoResultsMessage(req.q)
            /\ lastSearch' = SearchStep("nothing", req.q)
            /\ UNCHANGED weatherMounted
            /\ UNCHANGED <<cityQuery, citySuggestions, suggestionsOpen, error, monVars, devVars, panelVars>>
  /\ timers' = (IF searchTimeoutRef # NoTimer THEN timers \ {searchTimeoutRef} ELSE timers)
  /\ searchTimeoutRef' = NoTimer
  /\ UNCHANGED <<sinceInput, lastTyped, burstLen, sentSinceInput, lastSent>>

\* What a submitted search does when a source answered with list (lines 341-343,
\* 347-349), then finally setSearching(false).
SubmitDone(req, list) ==
  /\ searching' = FALSE
  /\ searchReqs' = searchReqs (-) SetToBag({req})
  /\ IF Len(list) > 0
       THEN /\ selectCity(list[1])
            /\ lastSearch' = SearchStep("selected", req.q)
            /\ UNCHANGED weatherMounted
            /\ UNCHANGED searchError
       ELSE /\ searchError' = NoResultsMessage(req.q)
            /\ lastSearch' = SearchStep("nothing", req.q)
            /\ UNCHANGED weatherMounted
            /\ UNCHANGED <<cityQuery, citySuggestions, suggestionsOpen, error, monVars, devVars, panelVars>>
  /\ UNCHANGED <<searchTimeoutRef, timers, sinceInput, lastTyped, burstLen, sentSinceInput, lastSent>>

\* Mutant of SubmitPrimaryOk: an empty answer of the backend is passed on to the
\* public source.
SubmitPrimaryOk_FallsBackOnEmpty(req, body) ==
  /\ BagIn(req, searchReqs)
  /\ req.stage = "submit"
  /\ IF Len(normalizeSuggestions(body)) > 0
       THEN SubmitDone(req, normalizeSuggestions(body))
       ELSE /\ searchReqs' = (searchReqs (-) SetToBag({req})) (+) SetToBag({SubmitRequest(req.q, "submitFallback")})
            /\ UNCHANGED <<cityQuery, citySuggestions, suggestionsOpen, searching, searchError, error,
                           searchTimeoutRef, timers, sinceInput, lastTyped, burstLen, sentSinceInput,
                           lastSent, lastSearch, weatherMounted>>
            /\ UNCHANGED <<monVars, devVars, panelVars>>

\* The backend answers the submitted search req.
SubmitPrimaryOk(req, body) ==
  /\ BagIn(req, searchReqs)
  /\ req.stage = "submit"
  /\ SubmitDone(req, normalizeSuggestions(body))

\* The backend request of req fails: the catch handler asks the public source.
SubmitPrimaryFail(req) ==
  /\ BagIn(req, searchReqs)
  /\ req.stage = "submit"
  /\ searchReqs' = (searchReqs (-) SetToBag({req})) (+) SetToBag({SubmitRequest(req.q, "submitFallback")})
  /\ UNCHANGED <<cityQuery, citySuggestions, suggestionsOpen, searching, searchError, error,
                 searchTimeoutRef, timers, sinceInput, lastTyped, burstLen, sentSinceInput, lastSent,
                 lastSearch, weatherMounted>>
  /\ UNCHANGED <<monVars, devVars, panelVars>>

\* The public source answers the submitted search req (an error status included).
SubmitFallbackOk(req, body) ==
  /\ BagIn(req, searchReqs)
  /\ req.stage = "submitFallback"
  /\ SubmitDone(req, fetchCitiesOpenMeteo(body))

\* The public source throws: catch { setSearchError("Recherche indisponible.") }, line 350.
SubmitFallbackThrow(req) ==
  /\ BagIn(req, searchReqs)
  /\ req.stage = "submitFallback"
  /\ searching' = FALSE
  /\ searchReqs' = searchReqs (-) SetToBag({req})
  /\ searchError' = UnavailableMessage
  /\ lastSearch' = SearchStep("failed", req.q)
  /\ UNCHANGED weatherMounted
  /\ UNCHANGED <<cityQuery, citySuggestions, suggestionsOpen, error, searchTimeoutRef, timers,
                 sinceInput, lastTyped, burstLen, sentSinceInput, lastSent>>
  /\ UNCHANGED <<monVars, devVars, panelVars>>

\* The retry button of line 397: setRetryCount, then the current-weather effect.
Retry ==
  /\ error # "null"
  /\ StartWeather(selectedCity)
  /\ UNCHANGED <<selectedCity, searchOnlyVars, forecastVars, analysisVars, predictionVars, answering, monVars, devVars>>

\* Mutant of WeatherDone: the writes are not behind !cancelled.
WeatherDone_IgnoresCancelled(r, d) ==
  /\ weatherReqs' = weatherReqs \ {r}
  /\ weather' = d
  /\ weatherLoading' = FALSE
  /\ weatherOutcome' = IF r.cancelled THEN weatherOutcome ELSE Done(weatherOutcome, "ok", d)
  /\ UNCHANGED error

\* The end of a run r of the current-weather effect with data d (line 203) and
\* its finally (line 213): every write is behind !cancelled.
WeatherDone(r, d) ==
  /\ weatherReqs' = weatherReqs \ {r}
  /\ IF r.cancelled
       THEN UNCHANGED <<weather, weatherLoading, weatherOutcome>>
       ELSE /\ weather' = d
            /\ weatherLoading' = FALSE
            /\ weatherOutcome' = Done(weatherOutcome, "ok", d)
  /\ UNCHANGED error

\* The backend answers run r (lines 194-203).
WeatherPrimaryOk(r, body) ==
  /\ r \in weatherReqs
  /\ r.stage = "primary"
  /\ LET d == IF body.present THEN Weather(r.city, "backend") ELSE NoWeather
     IN IF ~r.cancelled /\ body.present /\ body.missingEnriched
          THEN /\ weatherReqs' = (weatherReqs \ {r}) \cup {[r EXCEPT !.stage = "enrich", !.data = d]}
               /\ UNCHANGED <<weather, weatherLoading, weatherOutcome, error>>
          ELSE WeatherDone(r, d)
  /\ UNCHANGED <<selectedCity, searchOnlyVars, forecastVars, analysisVars, predictionVars, answering, monVars, devVars>>

\* The enrichment of run r answers (lines 198-203).
WeatherEnrichSettle(r, answer) ==
  /\ r \in weatherReqs
  /\ r.stage = "enrich"
  /\ WeatherDone(r, IF answer = "data" THEN Weather(r.city, "enriched") ELSE r.data)
  /\ UNCHANGED <<selectedCity, searchOnlyVars, forecastVars, analysisVars, predictionVars, answering, monVars, devVars>>

\* The backend request of run r fails: the catch asks the public source (lines 204-206).
WeatherPrimaryFail(r) ==
  /\ r \in weatherReqs
  /\ r.stage = "primary"
  /\ weatherReqs' = (weatherReqs \ {r}) \cup {[r EXCEPT !.stage = "fallback"]}
  /\ UNCHANGED <<weather, weatherLoading, weatherOutcome, error>>
  /\ UNCHANGED <<selectedCity, searchOnlyVars, forecastVars, analysisVars, predictionVars, answering, monVars, devVars>>

\* Mutant of WeatherFallbackSettle: a failed fallback also clears the displayed weather.
WeatherFallbackSettle_ClearsWeather(r, answer) ==
  /\ r \in weatherReqs
  /\ r.stage = "fallback"
  /\ weatherReqs' = weatherReqs \ {r}
  /\ IF r.cancelled
       THEN UNCHANGED <<weather, weatherLoading, weatherOutcome, error>>
       ELSE /\ weatherLoading' = FALSE
            /\ IF answer = "data"
                 THEN /\ weather' = Weather(r.city, "openmeteo")
                      /\ weatherOutcome' = Done(weatherOutcome, "ok", weather')
                      /\ UNCHANGED error
                 ELSE /\ error' = (IF answer = "null" THEN "Meteo non disponible. Verifiez votre connexion."
                                   ELSE "Meteo non disponible. Verifiez que le service Monitoring est configure.")
                      /\ weatherOutcome' = Done(weatherOutcome, "fail", NoWeather)
                      /\ weather' = NoWeather
  /\ UNCHANGED <<selectedCity, searchOnlyVars, forecastVars, analysisVars, predictionVars, answering, monVars, devVars>>

\* The public source answers run r (lines 206-213).
WeatherFallbackSettle(r, answer) ==
  /\ r \in weatherReqs
  /\ r.stage = "fallback"
  /\ weatherReqs' = weatherReqs \ {r}
  /\ IF r.cancelled
       THEN UNCHANGED <<weather, weatherLoading, weatherOutcome, error>>
       ELSE /\ weatherLoading' = FALSE
            /\ IF answer = "data"
                 THEN /\ weather' = Weather(r.city, "openmeteo")
                      /\ weatherOutcome' = Done(weatherOutcome, "ok", weather')
                      /\ UNCHANGED error
                 ELSE /\ error' = (IF answer = "null" THEN "Meteo non disponible. Verifiez votre connexion."
                                   ELSE "Meteo non disponible. Verifiez que le service Monitoring est configure.")
                      /\ weatherOutcome' = Done(weatherOutcome, "fail", weather)
                      /\ UNCHANGED weather
  /\ UNCHANGED <<selectedCity, searchOnlyVars, forecastVars, analysisVars, predictionVars, answering, monVars, devVars>>

\* .then((res) => { if (!cancelled) setForecastData(res.data ?? null) }), then finally (lines 227, 229).
ForecastResolve(r, present) ==
  /\ r \in forecastReqs
  /\ forecastReqs' = forecastReqs \ {r}
  /\ IF r.cancelled
       THEN UNCHANGED <<forecastData, forecastLoading, forecastOutcome>>
       ELSE /\ forecastData' = (IF present THEN Forecast(r.city) ELSE NoForecast)
            /\ forecastLoading' = FALSE
            /\ forecastOutcome' = Done(forecastOutcome, "ok", forecastData')
  /\ UNCHANGED <<forecastError, selectedCity, searchVars, weatherVars, analysisVars, predictionVars, answering, monVars, devVars>>

\* Mutant of ForecastReject: the failure handler leaves the previous forecast in place.
ForecastReject_KeepsData(r) ==
  /\ r \in forecastReqs
  /\ forecastReqs' = forecastReqs \ {r}
  /\ IF r.cancelled
       THEN UNCHANGED <<forecastData, forecastLoading, forecastError, forecastOutcome>>
       ELSE /\ forecastError' = "Previsions indisponibles."
            /\ forecastData' = forecastData
            /\ forecastLoading' = FALSE
            /\ forecastOutcome' = Done(forecastOutcome, "fail", NoForecast)
  /\ UNCHANGED <<selectedCity, searchVars, weatherVars, analysisVars, predictionVars, answering, monVars, devVars>>

\* .catch(...) of the forecast request, then finally (lines 228-229).
ForecastReject(r) ==
  /\ r \in forecastReqs
  /\ forecastReqs' = forecastReqs \ {r}
  /\ IF r.cancelled
       THEN UNCHANGED <<forecastData, forecastLoading, forecastError, forecastOutcome>>
       ELSE /\ forecastError' = "Previsions indisponibles."
            /\ forecastData' = NoForecast
            /\ forecastLoading' = FALSE
            /\ forecastOutcome' = Done(forecastOutcome, "fail", NoForecast)
  /\ UNCHANGED <<selectedCity, searchVars, weatherVars, analysisVars, predictionVars, answering, monVars, devVars>>

\* .then((res) => { if (!cancelled) setAnalysisData(res.data ?? null) }), then finally (lines 250, 252).
AnalysisResolve(r, body) ==
  /\ r \in analysisReqs
  /\ body \in AnalysisBodies(r.city)
  /\ analysisReqs' = analysisReqs \ {r}
  /\ IF r.cancelled
       THEN UNCHANGED <<analysisData, analysisLoading, analysisOutcome>>
       ELSE /\ analysisData' = body
            /\ analysisLoading' = FALSE
            /\ analysisOutcome' = Done(analysisOutcome, "ok", analysisData')
  /\ UNCHANGED <<analysisError, sensorsData, sensorsLoading, selectedCity, searchVars, weatherVars, forecastVars, predictionVars, answering, monVars, devVars>>

\* .catch(...) of the analysis request, then finally (lines 251-252).
AnalysisReject(r) ==
  /\ r \in analysisReqs
  /\ analysisReqs' = analysisReqs \ {r}
  /\ IF r.cancelled
       THEN UNCHANGED <<analysisData, analysisLoading, analysisError, analysisOutcome>>
       ELSE /\ analysisError' = "Analyse meteo indisponible."
            /\ analysisData' = NoAnalysis
            /\ analysisLoading' = FALSE
            /\ analysisOutcome' = Done(analysisOutcome, "fail", NoAnalysis)
  /\ UNCHANGED <<sensorsData, sensorsLoading, selectedCity, searchVars, weatherVars, forecastVars, predictionVars, answering, monVars, devVars>>

\* The answers of GET /monitoring/data?limit=10: res.data, an array of samples
\* (their device_id, "" where it is missing or empty) or something else.
SensorIdLists == {<<>>, <<"d1", "d1">>, <<"d2", "", "d1">>}

SensorBodies == {[isArray |-> TRUE, ids |-> ids] : ids \in SensorIdLists} \cup {[isArray |-> FALSE, ids |-> <<>>]}

\* .then((res) => { const list = Array.isArray(res.data) ? res.data : []; setSensorsData(list) }),
\* then finally (lines 237, 239). The effect runs once per mount, so its run is never cancelled
\* while the page is shown.
SensorsResolve(body) ==
  /\ sensorsLoading
  /\ body \in SensorBodies
  /\ sensorsData' = (IF body.isArray THEN body.ids ELSE <<>>)
  /\ sensorsLoading' = FALSE
  /\ UNCHANGED <<analysisData, analysisLoading, analysisError, analysisReqs, analysisOutcome>>
  /\ UNCHANGED <<selectedCity, searchVars, weatherVars, forecastVars, predictionVars, answering, monVars, devVars>>

\* .catch(() => setSensorsData([])), then finally (lines 238-239).
SensorsReject ==
  /\ sensorsLoading
  /\ sensorsData' = <<>>
  /\ sensorsLoading' = FALSE
  /\ UNCHANGED <<analysisData, analysisLoading, analysisError, analysisReqs, analysisOutcome>>
  /\ UNCHANGED <<selectedCity, searchVars, weatherVars, forecastVars, predictionVars, answering, monVars, devVars>>

\* [...new Set(ids.filter(Boolean))]: the non-empty ids, each once, in the order
\* of their first occurrence.
RECURSIVE DistinctIds(_)
DistinctIds(ids) ==
  IF ids = <<>> THEN <<>>
  ELSE LET init == DistinctIds(SubSeq(ids, 1, Len(ids) - 1))
           last == ids[Len(ids)]
       IN IF last = "" \/ \E i \in 1..Len(init) : init[i] = last THEN init ELSE Append(init, last)

\* The options of the 24h device select after its placeholder (lines 497-498).
Prediction24hOptions ==
  analysisData.devices \o (IF Len(analysisData.devices) = 0 THEN DistinctIds(sensorsData) ELSE <<>>)

\* The options of the weather-aware device select after its placeholder (lines 553-554).
WeatherAwareOptions ==
  analysisData.devices \o (IF Len(analysisData.devices) = 0 THEN DistinctIds(sensorsData) ELSE <<>>)

\* Mutant of WeatherUnmount: the cleanup leaves the pending settle timer armed.
WeatherUnmount_LeavesTimer ==
  /\ weatherMounted
  /\ weatherMounted' = FALSE
  /\ weatherReqs' = CancelAll(weatherReqs)
  /\ forecastReqs' = CancelAll(forecastReqs)
  /\ analysisReqs' = CancelAll(analysisReqs)
  /\ UNCHANGED <<timers, cityQuery, citySuggestions, suggestionsOpen, searching, searchError, error,
                 searchTimeoutRef, searchReqs, sinceInput, lastTyped, burstLen, sentSinceInput,
                 lastSent, lastSearch>>
  /\ UNCHANGED <<weather, weatherLoading, weatherOutcome, forecastData, forecastLoading, forecastError,
                 forecastOutcome, analysisData, analysisLoading, analysisError, analysisOutcome,
                 sensorsData, sensorsLoading>>
  /\ UNCHANGED <<selectedCity, predictionVars, answering, monVars, devVars>>

\* Leaving the weather view: the cleanups of its effects run. The timer cleanup
\* (line 355) clears the timer the ref holds, the cleanups of the location
\* effects set their runs' cancelled flags (lines 217, 230, 253).
WeatherUnmount ==
  /\ weatherMounted
  /\ weatherMounted' = FALSE
  /\ timers' = (IF searchTimeoutRef # NoTimer THEN timers \ {searchTimeoutRef} ELSE timers)
  /\ weatherReqs' = CancelAll(weatherReqs)
  /\ forecastReqs' = CancelAll(forecastReqs)
  /\ analysisReqs' = CancelAll(analysisReqs)
  /\ UNCHANGED <<cityQuery, citySuggestions, suggestionsOpen, searching, searchError, error,
                 searchTimeoutRef, searchReqs, sinceInput, lastTyped, burstLen, sentSinceInput,
                 lastSent, lastSearch>>
  /\ UNCHANGED <<weather, weatherLoading, weatherOutcome, forecastData, forecastLoading, forecastError,
                 forecastOutcome, analysisData, analysisLoading, analysisError, analysisOutcome,
                 sensorsData, sensorsLoading>>
  /\ UNCHANGED <<selectedCity, predictionVars, answering, monVars, devVars>>

\* The three location-keyed panels. They share no state, so a behaviour delivers
\* the answers of one of them and leaves the requests of the other two awaiting.
LocationPanels == {"weather", "forecast", "analysis"}

\* The location panels after the first render and its effects: each has asked for Paris.
LocInit ==
  /\ weather = NoWeather
  /\ weatherLoading = TRUE
  /\ weatherReqs = {WeatherRun(CityParis)}
  /\ weatherOutcome = Pending({}, NoWeather)
  /\ forecastData = NoForecast
  /\ forecastLoading = TRUE
  /\ forecastError = "null"
  /\ forecastReqs = {LocationRun(CityParis)}
  /\ forecastOutcome = Pending({}, NoForecast)
  /\ analysisData = NoAnalysis
  /\ analysisLoading = TRUE
  /\ analysisError = "null"
  /\ analysisReqs = {LocationRun(CityParis)}
  /\ analysisOutcome = Pending({}, NoAnalysis)
  /\ sensorsData = <<>>
  /\ sensorsLoading = TRUE

PanelInit ==
  /\ selectedCity = CityParis
  /\ lastResolved = "none"
  /\ weatherAwareDeviceId = ""
  /\ weatherAwareResult = NoPrediction
  /\ weatherAwareLoading = FALSE
  /\ weatherAwareError = "null"
  /\ weatherAwareReqs = EmptyBag
  /\ weatherAwareOutcome = NoOutcome
  /\ prediction24hDeviceId = ""
  /\ prediction24hData = NoPrediction
  /\ prediction24hLoading = FALSE
  /\ prediction24hError = "null"
  /\ prediction24hReqs = EmptyBag
  /\ prediction24hOutcome = NoOutcome

\* ---------------------------------------------------------- specifications
MonInit ==
  /\ listeners = SetToBag(SocketEvents)
  /\ sockets = 1
  /\ interval = TRUE
  /\ mounted = TRUE
  /\ data = <<>>
  /\ chartData = <<>>
  /\ loading = TRUE
  /\ deviceFilter = ""
  /\ dateStart = ""
  /\ dateEnd = ""
  /\ useDateRange = FALSE
  /\ socketConnected = FALSE
  /\ transportConnected = FALSE
  /\ inflight = SetToBag({AllRequest})
  /\ lastApplied = NoRequest
  /\ lastOp = "mount"
  /\ scen = 0
  /\ predictDeviceId = ""
  /\ prediction = NoPredictionResult
  /\ predictionLoading = FALSE
  /\ predictionError = "null"
  /\ predictionReqs = EmptyBag

\* The query controller and the window: every operation that reads or writes the
\* filter, the window or the batch requests. The connectivity handlers other than
\* device_data write socketConnected and transportConnected only, which nothing
\* here reads; they, and the malformed payloads, are composed in SpecConn.
Next ==
  \/ \E v \in DeviceFilters : SetDeviceFilter(v)
  \/ \E b \in BOOLEAN : SetUseDateRange(b)
  \/ \E v \in StartValues : SetDateStart(v)
  \/ \E v \in EndValues : SetDateEnd(v)
  \/ Refresh
  \/ \E req \in BagToSet(inflight) : \E body \in ResponseTable[req] : SettleOk(req, body)
  \/ \E req \in BagToSet(inflight) : SettleFail(req)
  \/ \E doc \in ValidDocs : OnDeviceData(doc)
  \/ Unmount
  \/ Mount

\* ------------------------------------------------------ devices: lookup by id
\* The device a lookup shows: null, or the document of the id asked for.
NoDevice == [present |-> FALSE, device_id |-> ""]
Device(id) == [present |-> TRUE, device_id |-> id]

\* ex.response?.status === 404 (line 191).
NOT_FOUND == 404

NotFoundMessage == "Device non trouve."
GenericLookupMessage == "Erreur lors de la recherche."

\* What a failed lookup carries: the status of the response, 0 for a failure
\* without a response (network, timeout), and the detail of the body when it is
\* a string. The details are the backend's texts.
NoDetail == "undefined"
LookupDetails == {NoDetail, "Device not found", "Invalid device id"}
LookupStatuses == {0, 400, NOT_FOUND, 500}
LookupFailures ==
  {f \in [status : LookupStatuses, detail : LookupDetails] : f.status = 0 => f.detail = NoDetail}

NoReply == [kind |-> "none", status |-> 0, detail |-> NoDetail]
LookupOk == [kind |-> "ok", status |-> 200, detail |-> NoDetail]
LookupFailed(f) == [kind |-> "fail", status |-> f.status, detail |-> f.detail]

\* Mutant of LookupMessage: the backend's detail wins over the status.
LookupMessage_DetailFirst(f) ==
  IF f.detail # NoDetail THEN f.detail
  ELSE IF f.status = NOT_FOUND THEN NotFoundMessage
  ELSE GenericLookupMessage

\* The message of the catch block (lines 190-195).
LookupMessage(f) ==
  IF f.status = NOT_FOUND THEN NotFoundMessage
  ELSE IF f.detail # NoDetail THEN f.detail
  ELSE GenericLookupMessage

\* What the lookup input may hold.
SearchIds == {"", " ", "s1", "s2"}

DevInit ==
  /\ searchId = ""
  /\ deviceById = NoDevice
  /\ searchLoading = FALSE
  /\ lookupError = "null"
  /\ lookupReqs = EmptyBag
  /\ lookupReply = NoReply

\* onChange of the lookup input (line 302).
SetSearchId(v) ==
  /\ v # searchId
  /\ searchId' = v
  /\ UNCHANGED <<deviceById, searchLoading, lookupError, lookupReqs, lookupReply>>
  /\ UNCHANGED <<monVars, searchVars, panelVars>>

\* handleGetById up to its request (lines 179-187), from the submit button of
\* line 307, which is disabled while loading or without an id.
HandleGetById ==
  /\ ~searchLoading
  /\ Trim(searchId) # ""
  /\ searchLoading' = TRUE
  /\ lookupError' = "null"
  /\ deviceById' = NoDevice
  /\ lookupReqs' = lookupReqs (+) SetToBag({Trim(searchId)})
  /\ UNCHANGED <<searchId, lookupReply>>
  /\ UNCHANGED <<monVars, searchVars, panelVars>>

\* setDeviceById(res.data), then finally (lines 188, 196-198).
LookupResolve(id) ==
  /\ BagIn(id, lookupReqs)
  /\ deviceById' = Device(id)
  /\ searchLoading' = FALSE
  /\ lookupReqs' = lookupReqs (-) SetToBag({id})
  /\ lookupReply' = LookupOk
  /\ UNCHANGED <<searchId, lookupError>>
  /\ UNCHANGED <<monVars, searchVars, panelVars>>

\* catch, then finally (lines 189-198).
LookupReject(id, f) ==
  /\ BagIn(id, lookupReqs)
  /\ f \in LookupFailures
  /\ lookupError' = LookupMessage(f)
  /\ searchLoading' = FALSE
  /\ lookupReqs' = lookupReqs (-) SetToBag({id})
  /\ lookupReply' = LookupFailed(f)
  /\ UNCHANGED <<searchId, deviceById>>
  /\ UNCHANGED <<monVars, searchVars, panelVars>>

\* The Fermer button under the device shown (line 328).
CloseDevice ==
  /\ deviceById.present
  /\ deviceById' = NoDevice
  /\ lookupError' = "null"
  /\ searchId' = ""
  /\ UNCHANGED <<searchLoading, lookupReqs, lookupReply>>
  /\ UNCHANGED <<monVars, searchVars, panelVars>>

NextLookup ==
  \/ \E v \in SearchIds : SetSearchId(v)
  \/ HandleGetById
  \/ \E id \in BagToSet(lookupReqs) : LookupResolve(id)
  \/ \E id \in BagToSet(lookupReqs) : \E f \in LookupFailures : LookupReject(id, f)
  \/ CloseDevice

Init == MonInit /\ SearchInit /\ PanelInit /\ LocInit /\ DevInit /\ answering = "weather"

Spec == Init /\ [][Next]_vars

\* The lookup form of the devices page alone.
SpecLookup == Init /\ [][NextLookup]_vars

\* The push-channel effect: the listeners, the liveness interval, the cleanup.
NextConn ==
  \/ OnConnect
  \/ OnDisconnect
  \/ \E doc \in Docs : OnDeviceData(doc)
  \/ LivenessTick
  \/ Unmount
  \/ Mount

SpecConn == Init /\ [][NextConn]_vars

\* The liveness interval beside the socket events, with a transport whose flag
\* may turn true ahead of its connect event. The interval fires again and again
\* for as long as it is set.
NextTick ==
  \/ OnConnect
  \/ OnDisconnect
  \/ \E doc \in ValidDocs : OnDeviceData(doc)
  \/ TransportConnects
  \/ LivenessTick
  \/ Unmount
  \/ Mount

SpecTick == Init /\ [][NextTick]_vars /\ WF_vars(LivenessTick)

\* The debounced typeahead search of the weather view.
NextSearch ==
  \/ \E value \in InputValues : OnInputChange(value)
  \/ \E dt \in TimeSteps : Advance(dt)
  \/ \E t \in timers : TimerFire(t)
  \/ \E req \in BagToSet(searchReqs) : \E body \in PrimaryBodies : PrimaryOk(req, body)
  \/ \E req \in BagToSet(searchReqs) : PrimaryFail(req)
  \/ \E req \in BagToSet(searchReqs) : \E body \in FallbackBodies : FallbackOk(req, body)
  \/ \E req \in BagToSet(searchReqs) : FallbackThrow(req)
  \/ OnFocus
  \/ OnBlur

SpecSearch == Init /\ [][NextSearch]_vars

\* The city search with its explicit submit: the typeahead, the search button,
\* Enter, and the selection a submitted search commits.
NextSubmit ==
  \/ \E value \in SubmitInputs : OnInputChange(value)
  \/ \E dt \in TimeSteps : Advance(dt)
  \/ \E t \in timers : TimerFire(t)
  \/ \E req \in BagToSet(searchReqs) : \E body \in PrimaryBodies : PrimaryOk(req, body)
  \/ \E req \in BagToSet(searchReqs) : PrimaryFail(req)
  \/ \E req \in BagToSet(searchReqs) : \E body \in FallbackBodies : FallbackOk(req, body)
  \/ \E req \in BagToSet(searchReqs) : FallbackThrow(req)
  \/ ClickSearch
  \/ PressEnter
  \/ \E req \in BagToSet(searchReqs) : \E body \in PrimaryBodies : SubmitPrimaryOk(req, body)
  \/ \E req \in BagToSet(searchReqs) : SubmitPrimaryFail(req)
  \/ \E req \in BagToSet(searchReqs) : \E body \in FallbackBodies : SubmitFallbackOk(req, body)
  \/ \E req \in BagToSet(searchReqs) : SubmitFallbackThrow(req)

SpecSubmit == Init /\ [][NextSubmit]_vars

\* The two device-keyed prediction panels of the weather view.
NextPanels ==
  \/ \E c \in Cities : SelectCity(c)
  \/ \E dev \in DeviceOptions : SelectWeatherAwareDevice(dev)
  \/ FetchWeatherAwarePrediction
  \/ \E req \in BagToSet(weatherAwareReqs) : \E body \in PredictionBodies(req) : WeatherAwareResolve(req, body)
  \/ \E req \in BagToSet(weatherAwareReqs) : WeatherAwareReject(req)
  \/ \E dev \in DeviceOptions : SelectPrediction24hDevice(dev)
  \/ FetchPrediction24h
  \/ \E req \in BagToSet(prediction24hReqs) : \E body \in PredictionBodies(req) : Prediction24hResolve(req, body)
  \/ \E req \in BagToSet(prediction24hReqs) : Prediction24hReject(req)

SpecPanels == Init /\ [][NextPanels]_vars

\* The location-keyed panels under changes of the City Selection and retries.
\* The three effects start together at a selection; the panel that is answering
\* settles its runs in every order.
NextLocation ==
  \/ \E c \in Cities : SelectCity(c)
  \/ answering = "weather" /\ Retry
  \/ answering = "weather" /\ \E r \in weatherReqs : \E body \in WeatherBodies : WeatherPrimaryOk(r, body)
  \/ answering = "weather" /\ \E r \in weatherReqs : \E answer \in OpenMeteoAnswers : WeatherEnrichSettle(r, answer)
  \/ answering = "weather" /\ \E r \in weatherReqs : WeatherPrimaryFail(r)
  \/ answering = "weather" /\ \E r \in weatherReqs : \E answer \in OpenMeteoAnswers : WeatherFallbackSettle(r, answer)
  \/ answering = "forecast" /\ \E r \in forecastReqs : \E present \in BOOLEAN : ForecastResolve(r, present)
  \/ answering = "forecast" /\ \E r \in forecastReqs : ForecastReject(r)
  \/ answering = "analysis" /\ \E r \in analysisReqs : \E body \in AnalysisBodies(r.city) : AnalysisResolve(r, body)
  \/ answering = "analysis" /\ \E r \in analysisReqs : AnalysisReject(r)

InitLocation == MonInit /\ SearchInit /\ PanelInit /\ LocInit /\ DevInit /\ answering \in LocationPanels

SpecLocation == InitLocation /\ [][NextLocation]_vars

\* The four request panels side by side: forecast and analysis follow the City
\* Selection, the two predictions follow their device select and button. The
\* panel that is answering takes its steps in every order.
RequestPanels == {"forecast", "analysis", "weatherAware", "prediction24h"}

NextRequestPanels ==
  \/ \E c \in Cities : SelectCity(c)
  \/ answering = "forecast" /\ \E r \in forecastReqs : \E present \in BOOLEAN : ForecastResolve(r, present)
  \/ answering = "forecast" /\ \E r \in forecastReqs : ForecastReject(r)
  \/ answering = "analysis" /\ \E r \in analysisReqs : \E body \in AnalysisBodies(r.city) : AnalysisResolve(r, body)
  \/ answering = "analysis" /\ \E r \in analysisReqs : AnalysisReject(r)
  \/ answering = "weatherAware" /\ \E dev \in DeviceOptions : SelectWeatherAwareDevice(dev)
  \/ answering = "weatherAware" /\ FetchWeatherAwarePrediction
  \/ answering = "weatherAware" /\ \E req \in BagToSet(weatherAwareReqs) : \E body \in PredictionBodies(req) : WeatherAwareResolve(req, body)
  \/ answering = "weatherAware" /\ \E req \in BagToSet(weatherAwareReqs) : WeatherAwareReject(req)
  \/ answering = "prediction24h" /\ \E dev \in DeviceOptions : SelectPrediction24hDevice(dev)
  \/ answering = "prediction24h" /\ FetchPrediction24h
  \/ answering = "prediction24h" /\ \E req \in BagToSet(prediction24hReqs) : \E body \in PredictionBodies(req) : Prediction24hResolve(req, body)
  \/ answering = "prediction24h" /\ \E req \in BagToSet(prediction24hReqs) : Prediction24hReject(req)

InitRequestPanels == MonInit /\ SearchInit /\ PanelInit /\ LocInit /\ DevInit /\ answering \in RequestPanels

SpecRequestPanels == InitRequestPanels /\ [][NextRequestPanels]_vars

\* The panels' request lifecycles beside the city search input: selections and
\* retries, the current-weather request failing over to its fallback, typing,
\* and the failures of one other panel, forecast or analysis.
NextErrors ==
  \/ \E c \in Cities : SelectCity(c)
  \/ Retry
  \/ \E r \in weatherReqs : WeatherPrimaryFail(r)
  \/ \E r \in weatherReqs : \E answer \in OpenMeteoAnswers : WeatherFallbackSettle(r, answer)
  \/ answering = "forecast" /\ \E r \in forecastReqs : ForecastReject(r)
  \/ answering = "analysis" /\ \E r \in analysisReqs : AnalysisReject(r)
  \/ \E value \in SubmitInputs : OnInputChange(value)

SpecErrors == InitLocation /\ [][NextErrors]_vars

\* The two sources of the device selects' options: the analysis of the City
\* Selection and the recent samples fetched at mount.
NextCandidates ==
  \/ \E c \in Cities : SelectCity(c)
  \/ \E r \in analysisReqs : \E body \in AnalysisBodies(r.city) : AnalysisResolve(r, body)
  \/ \E r \in analysisReqs : AnalysisReject(r)
  \/ \E body \in SensorBodies : SensorsResolve(body)
  \/ SensorsReject

SpecCandidates == Init /\ [][NextCandidates]_vars

\* The typeahead until the weather view is left: the handlers run while the view
\* is mounted; time passes and an armed timer fires whether it is or not.
NextLeave ==
  \/ weatherMounted /\ \E value \in InputValues : OnInputChange(value)
  \/ \E dt \in TimeSteps : Advance(dt)
  \/ \E t \in timers : TimerFire(t)
  \/ weatherMounted /\ \E req \in BagToSet(searchReqs) : \E body \in PrimaryBodies : PrimaryOk(req, body)
  \/ weatherMounted /\ \E req \in BagToSet(searchReqs) : PrimaryFail(req)
  \/ weatherMounted /\ \E req \in BagToSet(searchReqs) : \E body \in FallbackBodies : FallbackOk(req, body)
  \/ weatherMounted /\ \E req \in BagToSet(searchReqs) : FallbackThrow(req)
  \/ WeatherUnmount

SpecLeave == Init /\ [][NextLeave]_vars

\* The three device-keyed prediction panels, the ML prediction of the monitoring
\* view and the two of the weather view, under changes of their device select
\* and of the City Selection. The panel that is answering takes its steps.
PredictionPanels == {"ml", "weatherAware", "prediction24h"}

NextPredictions ==
  \/ \E c \in Cities : SelectCity(c)
  \/ answering = "ml" /\ \E dev \in PredictDeviceOptions : SelectPredictDevice(dev)
  \/ answering = "ml" /\ FetchPrediction
  \/ answering = "ml" /\ \E dev \in BagToSet(predictionReqs) : \E body \in PredictionResults(dev) : PredictionResolve(dev, body)
  \/ answering = "ml" /\ \E dev \in BagToSet(predictionReqs) : PredictionReject(dev)
  \/ answering = "weatherAware" /\ \E dev \in DeviceOptions : SelectWeatherAwareDevice(dev)
  \/ answering = "weatherAware" /\ FetchWeatherAwarePrediction
  \/ answering = "weatherAware" /\ \E req \in BagToSet(weatherAwareReqs) : \E body \in PredictionBodies(req) : WeatherAwareResolve(req, body)
  \/ answering = "weatherAware" /\ \E req \in BagToSet(weatherAwareReqs) : WeatherAwareReject(req)
  \/ answering = "prediction24h" /\ \E dev \in DeviceOptions : SelectPrediction24hDevice(dev)
  \/ answering = "prediction24h" /\ FetchPrediction24h
  \/ answering = "prediction24h" /\ \E req \in BagToSet(prediction24hReqs) : \E body \in PredictionBodies(req) : Prediction24hResolve(req, body)
  \/ answering = "prediction24h" /\ \E req \in BagToSet(prediction24hReqs) : Prediction24hReject(req)

InitPredictions == MonInit /\ SearchInit /\ PanelInit /\ LocInit /\ DevInit /\ answering \in PredictionPanels

SpecPredictions == InitPredictions /\ [][NextPredictions]_vars

\* Every loading flag with the steps that set and clear it, the views staying
\* mounted: the panel that is answering takes its steps, and the City Selection
\* changes under the panels of the weather view.
LoadingPanels ==
  {"batch", "search", "weather", "forecast", "analysis", "weatherAware", "prediction24h", "ml"}

\* The answers the requests get here: the flags do not depend on what an
\* answer holds, so one empty and one non-empty answer of each kind are enough.
LiveResponses(req) == {b \in ResponseTable[req] : b.rows = <<>>}
LivePrimaryBodies == {b \in PrimaryBodies : b.shape = "array" /\ b.items \in {<<>>, <<ItemParis>>}}
LiveFallbackBodies == {b \in FallbackBodies : b.ok = b.hasResults /\ b.items = (IF b.ok THEN <<ItemParis>> ELSE <<>>)}

BatchSettles ==
  /\ answering = "batch"
  /\ \/ \E req \in BagToSet(inflight) : \E body \in LiveResponses(req) : SettleOk(req, body)
     \/ \E req \in BagToSet(inflight) : SettleFail(req)

SearchSettles ==
  /\ answering = "search"
  /\ \/ \E req \in BagToSet(searchReqs) : \E body \in LivePrimaryBodies : PrimaryOk(req, body)
     \/ \E req \in BagToSet(searchReqs) : PrimaryFail(req)
     \/ \E req \in BagToSet(searchReqs) : \E body \in LiveFallbackBodies : FallbackOk(req, body)
     \/ \E req \in BagToSet(searchReqs) : FallbackThrow(req)
     \/ \E req \in BagToSet(searchReqs) : \E body \in LivePrimaryBodies : SubmitPrimaryOk(req, body)
     \/ \E req \in BagToSet(searchReqs) : SubmitPrimaryFail(req)
     \/ \E req \in BagToSet(searchReqs) : \E body \in LiveFallbackBodies : SubmitFallbackOk(req, body)
     \/ \E req \in BagToSet(searchReqs) : SubmitFallbackThrow(req)

WeatherSettles ==
  /\ answering = "weather"
  /\ \/ \E r \in weatherReqs : \E body \in WeatherBodies : WeatherPrimaryOk(r, body)
     \/ \E r \in weatherReqs : \E answer \in OpenMeteoAnswers : WeatherEnrichSettle(r, answer)
     \/ \E r \in weatherReqs : WeatherPrimaryFail(r)
     \/ \E r \in weatherReqs : \E answer \in OpenMeteoAnswers : WeatherFallbackSettle(r, answer)

ForecastSettles ==
  /\ answering = "forecast"
  /\ \/ \E r \in forecastReqs : \E present \in BOOLEAN : ForecastResolve(r, present)
     \/ \E r \in forecastReqs : ForecastReject(r)

AnalysisSettles ==
  /\ answering = "analysis"
  /\ \/ \E r \in analysisReqs : \E body \in AnalysisBodies(r.city) : AnalysisResolve(r, body)
     \/ \E r \in analysisReqs : AnalysisReject(r)

WeatherAwareSettles ==
  /\ answering = "weatherAware"
  /\ \/ \E req \in BagToSet(weatherAwareReqs) : \E body \in PredictionBodies(req) : WeatherAwareResolve(req, body)
     \/ \E req \in BagToSet(weatherAwareReqs) : WeatherAwareReject(req)

Prediction24hSettles ==
  /\ answering = "prediction24h"
  /\ \/ \E req \in BagToSet(prediction24hReqs) : \E body \in PredictionBodies(req) : Prediction24hResolve(req, body)
     \/ \E req \in BagToSet(prediction24hReqs) : Prediction24hReject(req)

PredictionSettles ==
  /\ answering = "ml"
  /\ \/ \E dev \in BagToSet(predictionReqs) : \E body \in PredictionResults(dev) : PredictionResolve(dev, body)
     \/ \E dev \in BagToSet(predictionReqs) : PredictionReject(dev)

\* A change of the City Selection from the suggestion list.
CityChanges == \E c \in Cities : SelectCity(c)

NextLive ==
  \/ answering = "batch" /\ \E v \in DeviceFilters : SetDeviceFilter(v)
  \/ answering = "batch" /\ \E b \in BOOLEAN : SetUseDateRange(b)
  \/ answering = "batch" /\ Refresh
  \/ BatchSettles
  \/ answering = "search" /\ \E value \in SubmitInputs : OnInputChange(value)
  \/ answering = "search" /\ \E dt \in TimeSteps : Advance(dt)
  \/ answering = "search" /\ \E t \in timers : TimerFire(t)
  \/ answering = "search" /\ ClickSearch
  \/ answering = "search" /\ PressEnter
  \/ SearchSettles
  \/ answering \notin {"batch", "search", "ml"} /\ CityChanges
  \/ answering = "weather" /\ Retry
  \/ WeatherSettles
  \/ ForecastSettles
  \/ AnalysisSettles
  \/ answering = "weatherAware" /\ \E dev \in DeviceOptions : SelectWeatherAwareDevice(dev)
  \/ answering = "weatherAware" /\ FetchWeatherAwarePrediction
  \/ WeatherAwareSettles
  \/ answering = "prediction24h" /\ \E dev \in DeviceOptions : SelectPrediction24hDevice(dev)
  \/ answering = "prediction24h" /\ FetchPrediction24h
  \/ Prediction24hSettles
  \/ answering = "ml" /\ \E dev \in PredictDeviceOptions : SelectPredictDevice(dev)
  \/ answering = "ml" /\ FetchPrediction
  \/ PredictionSettles

InitLive == MonInit /\ SearchInit /\ PanelInit /\ LocInit /\ DevInit /\ answering \in LoadingPanels

\* The settlement of a request in flight of the panel that is answering.
Settles ==
  \/ BatchSettles
  \/ SearchSettles
  \/ WeatherSettles
  \/ ForecastSettles
  \/ AnalysisSettles
  \/ WeatherAwareSettles
  \/ Prediction24hSettles
  \/ PredictionSettles

\* Every request issued is answered, refused or timed out in the end: the
\* settlement of the requests in flight is not postponed for ever.
LiveFairness == WF_vars(Settles)

SpecLive == InitLive /\ [][NextLive]_vars /\ LiveFairness

\* ======================================================================
\* Claims about the monitoring view
\* ======================================================================

\* C1: after any sequence of batch loads (in any of the three query modes, range
\* mode included) and live appends, the window never holds more than C samples.
C1_WindowWithinCapacity == Len(data) <= C

CurrentRequest == RequestFor(deviceFilter, useDateRange, dateStart, dateEnd)

\* C2: last-filter-wins. Every filter change issues the fetch of the new filter at
\* once, so once nothing is in flight the window must have been written last by a
\* fetch for the filter now active; a late settlement of an earlier filter's fetch
\* (success or failure) must not have overwritten or cleared it.
C2_LastFilterWins ==
  (mounted /\ inflight = EmptyBag) => lastApplied = CurrentRequest

IncompleteRange(dev, range, s, e) ==
  range /\ Trim(dev) # "" /\ ((s = "") # (e = ""))

CompleteRange(dev, range, s, e) ==
  range /\ Trim(dev) # "" /\ s # "" /\ e # ""

\* C3: in range mode with a device selected and exactly one bound set, no step
\* issues a request; the step that sets the missing bound issues exactly one
\* request, the range request.
C3_RangeWaitsForBothBounds ==
  [][ /\ (mounted' /\ IncompleteRange(deviceFilter', useDateRange', dateStart', dateEnd'))
         => BagCardinality(inflight') <= BagCardinality(inflight)
      /\ (/\ mounted'
          /\ IncompleteRange(deviceFilter, useDateRange, dateStart, dateEnd)
          /\ CompleteRange(deviceFilter', useDateRange', dateStart', dateEnd'))
         => inflight' = inflight (+) SetToBag({RangeRequest(Trim(deviceFilter'), dateStart', dateEnd')})
    ]_vars

\* C5: right after a valid live sample is applied it is the first element of the
\* newest-first window, whatever its timestamp.
C5_LiveSampleIsHead ==
  [][\A doc \in ValidDocs :
       OnDeviceData(doc) => (data' # <<>> /\ Head(data') = RowOfDoc(doc))]_vars

\* C5 witness: a live sample was just applied after a batch load, and it is older
\* than the sample below it.
C5_Witness ==
  /\ lastOp = "live"
  /\ lastApplied # NoRequest
  /\ Len(data) >= 2
  /\ data[1].timestamp < data[2].timestamp

\* C6 as stated: right after a batch load installs a non-empty window S, chartData
\* is exactly S reversed, element for element.
C6_ChartIsWindowReversed ==
  (lastOp = "batch" /\ data # <<>>) => chartData = Reverse(data)

\* C6 amended: right after a batch load installs a non-empty window S, chartData
\* has the length of S and its i-th element is the chart point of the i-th sample
\* of S counted from the end.
C6_ChartIsMappedReverse ==
  (lastOp = "batch" /\ data # <<>>) =>
     /\ Len(chartData) = Len(data)
     /\ \A i \in 1..Len(data) : chartData[i] = ChartPoint(data[Len(data) + 1 - i])

\* C6 witness: a batch load just installed two samples with different chart points.
C6_Witness ==
  /\ lastOp = "batch"
  /\ Len(data) >= 2
  /\ ChartPoint(data[1]) # ChartPoint(data[Len(data)])

\* C7: along connect, telemetry event, disconnect, connect the displayed
\* connectivity is connected, connected, disconnected, connected; a connect event
\* shows connected and a disconnect event shows disconnected at once.
C7_ConnectivityFollowsEvents ==
  /\ scen \in {1, 2, 4} => socketConnected
  /\ scen = 3 => ~socketConnected
  /\ lastOp = "connect" => socketConnected
  /\ lastOp = "disconnect" => ~socketConnected

\* C7 witness: the four events happened in a row and no sample is in the window.
C7_Witness == scen = 4 /\ socketConnected /\ data = <<>>

\* C10: a malformed telemetry event changes neither the window nor the displayed
\* connectivity.
C10_MalformedEventDropped ==
  [][\A doc \in MalformedDocs :
       OnDeviceData(doc) => (data' = data /\ socketConnected' = socketConnected)]_vars

\* ------------------------------------------------------ claims: weather view

\* C4 as stated: since the last input change at most one suggestion query has
\* been sent, it was sent no sooner than the settle interval after that change,
\* and the q it carries equals the final input value.
C4_QueryCarriesFinalInput ==
  /\ sentSinceInput <= 1
  /\ sentSinceInput >= 1 => (lastSent.q = lastTyped /\ lastSent.at >= SEARCH_DEBOUNCE_MS)

\* C4 (amended): since the last input change at most one suggestion query has
\* been sent, it was sent no sooner than the settle interval after that change,
\* and the q it carries is the final input value with surrounding whitespace removed.
C4_DebouncedQuery ==
  /\ sentSinceInput <= 1
  /\ sentSinceInput >= 1 => (lastSent.q = Trim(lastTyped) /\ lastSent.at >= SEARCH_DEBOUNCE_MS)

\* A burst of three changes, each sooner than the interval after the previous
\* one, ending on a padded value, has been answered by its one query.
C4_Witness ==
  /\ burstLen >= 3
  /\ sentSinceInput = 1
  /\ lastTyped = "Pa "
  /\ lastSent.q = "Pa"

\* C9: once a suggestion query has settled with zero valid suggestions from the
\* source that answered, the list is empty and closed and the message is the
\* "no results for <query>" one, not "search unavailable".
C9_EmptyResultIsNotAnError ==
  lastSearch.op = "empty" =>
    /\ citySuggestions = <<>>
    /\ ~suggestionsOpen
    /\ searchError = NoResultsMessage(Trim(lastSearch.q))
    /\ searchError # UnavailableMessage

\* A query answered by the public source, after the backend failed, found nothing.
C9_Witness ==
  /\ lastSearch.op = "empty"
  /\ lastSearch.q = "Pa "
  /\ searchError = NoResultsMessage("Pa")
  /\ ~searching

\* The three operations of each prediction panel on its requests.
WeatherAwareRequestStep ==
  \/ FetchWeatherAwarePrediction
  \/ \E req \in BagToSet(weatherAwareReqs) : \E body \in PredictionBodies(req) : WeatherAwareResolve(req, body)
  \/ \E req \in BagToSet(weatherAwareReqs) : WeatherAwareReject(req)

Prediction24hRequestStep ==
  \/ FetchPrediction24h
  \/ \E req \in BagToSet(prediction24hReqs) : \E body \in PredictionBodies(req) : Prediction24hResolve(req, body)
  \/ \E req \in BagToSet(prediction24hReqs) : Prediction24hReject(req)

\* C8: starting, succeeding or failing a weather-aware request leaves the 24h
\* panel's data, error and loading flag unchanged, and conversely; and whenever
\* the last weather-aware request has failed and the last 24h request has
\* succeeded, in whichever order they settled, the weather-aware panel shows
\* its error and the 24h panel shows its data.
C8_PanelsDoNotInterfere ==
  [][/\ WeatherAwareRequestStep =>
          UNCHANGED <<prediction24hData, prediction24hError, prediction24hLoading>>
     /\ Prediction24hRequestStep =>
          UNCHANGED <<weatherAwareResult, weatherAwareError, weatherAwareLoading>>
     /\ (weatherAwareOutcome'.kind = "fail" /\ prediction24hOutcome'.kind = "ok") =>
          /\ weatherAwareError' # "null"
          /\ weatherAwareResult' = NoPrediction
          /\ ~weatherAwareLoading'
          /\ prediction24hError' = "null"
          /\ prediction24hData' = prediction24hOutcome'.data
          /\ ~prediction24hLoading']_vars

\* The weather-aware failure settled after the 24h success and left its data in place.
C8_Witness ==
  /\ weatherAwareOutcome.kind = "fail"
  /\ prediction24hOutcome.kind = "ok"
  /\ prediction24hData.present
  /\ weatherAwareError # "null"
  /\ lastResolved = "weatherAware"

\* ----------------------------------------------- claims: monitoring teardown

\* C11: the teardown removes every listener, stops the liveness interval, closes
\* the transport and shows disconnected; while the view is torn down no connect,
\* disconnect, telemetry or liveness-tick handler can run, and no step short of
\* a new mount changes the window or the displayed connectivity.
C11_TeardownSilencesChannel ==
  [][/\ Unmount => (listeners' = EmptyBag /\ ~interval' /\ ~transportConnected' /\ ~socketConnected')
     /\ ~mounted =>
          /\ ~ENABLED OnConnect
          /\ ~ENABLED OnDisconnect
          /\ ~ENABLED (\E doc \in Docs : OnDeviceData(doc))
          /\ ~ENABLED LivenessTick
          /\ mounted' \/ (data' = data /\ socketConnected' = socketConnected)]_vars

\* The view has just been torn down.
C11_Witness ==
  /\ ~mounted
  /\ lastOp = "unmount"
  /\ listeners = EmptyBag
  /\ ~interval
  /\ ~socketConnected

\* ---------------------------------------------- claims: location-keyed panels

\* C12: replacing the City Selection starts a new request of the current
\* weather, the forecast and the analysis for the new city, and leaves the
\* selected device, result, error and loading flag of both prediction panels
\* as they were.
C12_SelectionKeepsPredictions ==
  [][\A c \in Cities :
       SelectCity(c) =>
         /\ Active(weatherReqs') = {WeatherRun(c)}
         /\ Active(forecastReqs') = {LocationRun(c)}
         /\ Active(analysisReqs') = {LocationRun(c)}
         /\ UNCHANGED <<weatherAwareDeviceId, weatherAwareResult, weatherAwareError,
                        weatherAwareLoading>>
         /\ UNCHANGED <<prediction24hDeviceId, prediction24hData, prediction24hError,
                        prediction24hLoading>>]_vars

\* The 24h panel still shows the prediction made for the city selected before,
\* and the weather-aware panel its error.
C12_Witness ==
  /\ prediction24hData.present
  /\ prediction24hData.city # selectedCity.name
  /\ weatherAwareError # "null"
  /\ Active(weatherReqs) = {WeatherRun(selectedCity)}

\* A panel whose runs have all settled, the latest having started while the run
\* before it was still awaiting its answer, shows what the latest run produced
\* and nothing else.
WeatherAlone ==
  (weatherReqs = {} /\ weatherOutcome.overlap) =>
    /\ ~weatherLoading
    /\ weather = weatherOutcome.data
    /\ weatherOutcome.kind = "ok" => (error = "null" /\ (weather.present => weather.city = selectedCity.name))
    /\ weatherOutcome.kind = "fail" => error # "null"

ForecastAlone ==
  (forecastReqs = {} /\ forecastOutcome.overlap) =>
    /\ ~forecastLoading
    /\ forecastData = forecastOutcome.data
    /\ forecastOutcome.kind = "ok" => (forecastError = "null" /\ (forecastData.present => forecastData.city = selectedCity.name))
    /\ forecastOutcome.kind = "fail" => forecastError # "null"

AnalysisAlone ==
  (analysisReqs = {} /\ analysisOutcome.overlap) =>
    /\ ~analysisLoading
    /\ analysisData = analysisOutcome.data
    /\ analysisOutcome.kind = "ok" => (analysisError = "null" /\ (analysisData.present => analysisData.city = selectedCity.name))
    /\ analysisOutcome.kind = "fail" => analysisError # "null"

\* The settlement of a run whose city has been replaced.
StaleWeatherStep ==
  \E r \in weatherReqs :
    /\ r.cancelled
    /\ \/ \E body \in WeatherBodies : WeatherPrimaryOk(r, body)
       \/ \E answer \in OpenMeteoAnswers : WeatherEnrichSettle(r, answer)
       \/ WeatherPrimaryFail(r)
       \/ \E answer \in OpenMeteoAnswers : WeatherFallbackSettle(r, answer)

StaleForecastStep ==
  \E r \in forecastReqs :
    r.cancelled /\ ((\E present \in BOOLEAN : ForecastResolve(r, present)) \/ ForecastReject(r))

StaleAnalysisStep ==
  \E r \in analysisReqs :
    r.cancelled /\ ((\E body \in AnalysisBodies(r.city) : AnalysisResolve(r, body)) \/ AnalysisReject(r))

\* C13: for each location-keyed panel, the settlement of a request whose city
\* has been replaced writes nothing to the panel, and once the replaced and the
\* replacing request have both settled, in any order, the panel's data, error
\* and loading flag are those the replacing request produced alone.
C13_LocationPanelsFollowLatestCity ==
  [][/\ StaleWeatherStep => UNCHANGED <<weather, error, weatherLoading>>
     /\ StaleForecastStep => UNCHANGED <<forecastData, forecastError, forecastLoading>>
     /\ StaleAnalysisStep => UNCHANGED <<analysisData, analysisError, analysisLoading>>
     /\ WeatherAlone'
     /\ ForecastAlone'
     /\ AnalysisAlone']_vars

\* The replaced request for Paris and the replacing one for Lyon have both
\* settled, and the current-weather panel shows Lyon.
C13_Witness ==
  /\ answering = "weather"
  /\ weatherReqs = {}
  /\ weatherOutcome.overlap
  /\ weatherOutcome.kind = "ok"
  /\ weather.present /\ weather.city = "Lyon"
  /\ error = "null" /\ ~weatherLoading

\* ------------------------------------------------------ claims: city search
\* The settlement of a suggestion query whose q is no longer the query of the input.
StaleSuggestionStep ==
  \E req \in BagToSet(searchReqs) :
    /\ req.q # Trim(cityQuery)
    /\ \/ \E body \in PrimaryBodies : PrimaryOk(req, body)
       \/ \E body \in FallbackBodies : FallbackOk(req, body)
       \/ FallbackThrow(req)

\* C14: a suggestion response whose captured query differs from the query of
\* the input at the time it resolves is discarded: it changes neither the
\* suggestion list nor the search message.
C14_StaleSuggestionsDiscarded ==
  [][StaleSuggestionStep => UNCHANGED <<citySuggestions, suggestionsOpen, searchError>>]_vars

\* The input becomes empty or whitespace-only.
EmptyInputStep == \E value \in InputValues : Trim(value) = "" /\ OnInputChange(value)

\* C16: when the search input becomes empty or whitespace-only, the suggestion
\* list is cleared and closed in the same step, the pending settle timer is
\* cancelled, and no query is issued for that input: none in that step, and none
\* for as long as the input stays empty.
C16_EmptyInputClearsAtOnce ==
  [][/\ EmptyInputStep =>
          /\ citySuggestions' = <<>>
          /\ ~suggestionsOpen'
          /\ searchTimeoutRef' = NoTimer
          /\ timers' = {}
          /\ searchReqs' = searchReqs
     /\ (Trim(cityQuery) = "" => (timers = {} /\ sentSinceInput = 0))']_vars

\* The input was emptied less than 350 ms after the previous keystroke, while a
\* suggestion query was in flight.
C16_Witness ==
  /\ Trim(cityQuery) = ""
  /\ lastSearch = SearchStep("input", cityQuery)
  /\ burstLen >= 2
  /\ searchReqs # EmptyBag
  /\ citySuggestions = <<>> /\ ~suggestionsOpen
  /\ timers = {}

\* A request to the public source joins the requests in flight.
FallbackAdded ==
  \E req \in BagToSet(searchReqs') :
    /\ req.stage \in {"fallback", "submitFallback"}
    /\ CopiesIn(req, searchReqs') > CopiesIn(req, searchReqs)

\* A request to the backend joins the requests in flight, and nothing else does.
PrimaryAdded ==
  \E req \in BagToSet(searchReqs') :
    /\ req.stage \in {"primary", "submit"}
    /\ searchReqs' = searchReqs (+) SetToBag({req})

\* A search starts: the settle timer fires on a non-empty value, or a search is submitted.
SearchStarts ==
  \/ \E t \in timers : Trim(t.value) # "" /\ TimerFire(t)
  \/ searchAndSelectFirst

\* The backend request of a search fails, or is answered.
PrimaryFails == \E req \in BagToSet(searchReqs) : PrimaryFail(req) \/ SubmitPrimaryFail(req)
PrimaryAnswers ==
  \E req \in BagToSet(searchReqs) : \E body \in PrimaryBodies :
    PrimaryOk(req, body) \/ SubmitPrimaryOk(req, body)

\* C17: every city search, typeahead or submitted, queries the backend first;
\* the public source is queried only by the failure of that backend request,
\* and never when the backend answered, even with zero results.
C17_PrimaryThenFallback ==
  [][/\ SearchStarts => PrimaryAdded
     /\ FallbackAdded => (PrimaryFails /\ ~PrimaryAnswers)]_vars

\* A typeahead search and a submitted one are both waiting for the public
\* source, their backend requests having failed.
C17_Witness ==
  /\ BagIn(SuggestRequest("Pa ", "fallback"), searchReqs)
  /\ BagIn(SubmitRequest("Pa", "submitFallback"), searchReqs)

\* The public source fails a search whose backend request failed: it throws, or
\* it answers with an error status.
FallbackFails ==
  \E req \in BagToSet(searchReqs) :
    \/ FallbackThrow(req)
    \/ SubmitFallbackThrow(req)
    \/ \E body \in FallbackBodies : ~body.ok /\ (FallbackOk(req, body) \/ SubmitFallbackOk(req, body))

\* C18: when the backend fails and the public source fails too, by a network
\* error or by an error response, the message is "search unavailable" and not
\* the "no results" one.
C18_FailureIsNotNoResults ==
  [][FallbackFails => (searchError' = UnavailableMessage /\ searchError'.kind # "noresults")]_vars

\* An explicit submit on a non-empty query: the search button, or Enter.
ExplicitSubmit == Trim(cityQuery) # "" /\ (ClickSearch \/ PressEnter)

\* A submitted search gets its answer, from the backend or from the public source.
SubmitAnswered(list) ==
  \E req \in BagToSet(searchReqs) :
    \/ \E body \in PrimaryBodies : list = normalizeSuggestions(body) /\ SubmitPrimaryOk(req, body)
    \/ \E body \in FallbackBodies : list = fetchCitiesOpenMeteo(body) /\ SubmitFallbackOk(req, body)

\* C19: an explicit submit on a non-empty query starts the primary-then-fallback
\* resolution of that query; an answer with at least one result commits the
\* first as the City Selection, sets the input to its name and leaves the list
\* empty and closed; an answer with none leaves the City Selection unchanged.
C19_SubmitCommitsFirstResult ==
  [][/\ ExplicitSubmit =>
          searchReqs' = searchReqs (+) SetToBag({SubmitRequest(Trim(cityQuery), "submit")})
     /\ \A list \in SeqUpTo({CityParis}, MaxItems) :
          SubmitAnswered(list) =>
            IF Len(list) > 0
              THEN /\ selectedCity' = list[1]
                   /\ cityQuery' = list[1].name
                   /\ citySuggestions' = <<>>
                   /\ ~suggestionsOpen'
              ELSE UNCHANGED selectedCity]_vars

\* ------------------------------------------------- claims: monitoring batches
\* The failure of a batch fetch, whatever its mode.
BatchFailStep == \E req \in BagToSet(inflight) : SettleFail(req)

\* C15: a failed batch fetch, in any mode, empties the window, touches no other
\* displayed state (the view has no error state), and returns the loading flag
\* to false, so that the refresh action can issue the fetch again.
C15_FailedBatchEmptiesWindow ==
  [][BatchFailStep =>
       /\ data' = <<>>
       /\ chartData' = <<>>
       /\ ~loading'
       /\ UNCHANGED <<deviceFilter, dateStart, dateEnd, useDateRange, socketConnected>>
       /\ (ENABLED Refresh)']_vars

\* A range fetch has failed and left the window empty and the view idle.
C15_Witness ==
  /\ lastOp = "failed"
  /\ lastApplied.mode = "range"
  /\ data = <<>>
  /\ ~loading

\* The rows of the window in the order of a response to req: the latest
\* endpoints answer oldest first and are shown newest first.
WindowAsResponse(req, window) == IF req.mode = "range" THEN window ELSE Reverse(window)

\* C20: a successful batch resolution is the resolution of a response whose
\* rows are exactly those of the window right after it (or of a response that
\* is no array, the window being empty), so none of the live samples prepended
\* before the resolution remains unless the response holds it; a live sample
\* arriving afterwards is prepended to that content.
C20_BatchReplacesWindow ==
  [][/\ lastOp' = "batch" =>
          \/ SettleOk(lastApplied', ArrayBody(WindowAsResponse(lastApplied', data')))
          \/ data' = <<>> /\ SettleOk(lastApplied', NonArrayBody)
     /\ lastOp' = "live" =>
          \A doc \in ValidDocs :
            OnDeviceData(doc) =>
              /\ Len(data') = Min(Len(data) + 1, C)
              /\ data'[1] = RowOfDoc(doc)
              /\ \A i \in 2..Len(data') : data'[i] = data[i - 1]]_vars

\* A sample of device d2 has been prepended to the content of a batch that holds
\* samples of device d1 only.
C20_Witness ==
  /\ lastOp = "live"
  /\ lastApplied.mode = "device"
  /\ Len(data) = 2
  /\ data[1].device_id = "d2"
  /\ data[2].device_id = "d1"

\* ------------------------------------------------ claims: window insertion
\* C21: a live sample applied to a window W yields the sample followed by the
\* elements of W in their previous order, less at most one element, the last,
\* which goes only when W was already at capacity C.
C21_LiveAppendEvictsAtMostOne ==
  [][lastOp' = "live" =>
       \A doc \in ValidDocs :
         OnDeviceData(doc) =>
           /\ data' # <<>>
           /\ data'[1] = RowOfDoc(doc)
           /\ SubSeq(data', 2, Len(data')) = SubSeq(data, 1, Len(data') - 1)
           /\ Len(data) - (Len(data') - 1) <= 1
           /\ Len(data') - 1 < Len(data) => Len(data) = C]_vars

\* ------------------------------------------------ claims: query controller
\* C22: while the device id of the filter is empty or whitespace-only, the range
\* toggle and the range bounds are ignored: every fetch issued then is the
\* all-devices-latest request, and no range request is ever issued without a
\* device id.
C22_RangeNeedsDevice ==
  [][/\ \A req \in BagToSet(inflight') :
          CopiesIn(req, inflight') > CopiesIn(req, inflight) =>
            /\ Trim(deviceFilter') = "" => req = AllRequest
            /\ req.mode = "range" => req.device # ""
     /\ \A dev \in {"", " "} : \A range \in BOOLEAN : \A s \in StartValues : \A e \in EndValues :
          RequestFor(dev, range, s, e) = AllRequest]_vars

\* A refresh with the range toggle on and both bounds set, but no device, has
\* issued the all-devices-latest request.
C22_Witness ==
  /\ deviceFilter = ""
  /\ useDateRange /\ dateStart # "" /\ dateEnd # ""
  /\ lastOp = "refresh"
  /\ BagIn(AllRequest, inflight)

\* C23: in single-device-latest mode the window a successful fetch installs is
\* the response read backwards, its last element first; a response that is no
\* array installs the empty window.
C23_DeviceLatestIsReversed ==
  [][(lastOp' = "batch" /\ lastApplied'.mode = "device") =>
       \A body \in ResponseTable[lastApplied'] :
         SettleOk(lastApplied', body) =>
           IF body.isArray
             THEN /\ Len(data') = Len(body.rows)
                  /\ \A i \in 1..Len(data') : data'[i] = body.rows[Len(body.rows) - i + 1]
             ELSE data' = <<>>]_vars

\* The backend answered a single-device fetch with two rows, oldest first, and
\* the window shows the newest first.
C23_Witness ==
  /\ lastOp = "batch"
  /\ lastApplied.mode = "device"
  /\ Len(data) = 2
  /\ data[1].timestamp > data[2].timestamp

\* How many entries of s equal x.
Count(s, x) == Cardinality({i \in 1..Len(s) : s[i] = x})

\* C24: the window does not deduplicate: a valid sample equal to samples the
\* window already holds (same device_id, same timestamp) is added as one more
\* entry, ahead of them, and the earlier ones stay unless capacity evicts them.
C24_NoDeduplication ==
  [][lastOp' = "live" =>
       \A doc \in ValidDocs :
         OnDeviceData(doc) =>
           LET row == RowOfDoc(doc)
               kept == SubSeq(data, 1, Min(Len(data), C - 1))
           IN /\ data'[1] = row
              /\ Count(data', row) = Count(kept, row) + 1
              /\ (data # <<>> /\ data[1] = row /\ C >= 2) => data'[2] = row]_vars

\* A live sample equal to the one at the head of the window has arrived, and the
\* window holds both.
C24_Witness ==
  /\ lastOp = "live"
  /\ Len(data) >= 2
  /\ data[1] = data[2]
  /\ lastApplied = AllRequest

\* ------------------------------------------------ claims: liveness interval
\* C25: the periodic liveness check only ever sets the displayed connectivity to
\* connected, and only when the transport reports connected; it never sets it
\* to disconnected and never touches the window. So while the view stays mounted
\* and the transport stays connected, the displayed connectivity becomes
\* connected, even if no connect or telemetry event is observed.
C25_TickReassertsConnected ==
  /\ [][LivenessTick =>
          /\ socketConnected' = (socketConnected \/ transportConnected)
          /\ data' = data
          /\ chartData' = chartData
          /\ transportConnected' = transportConnected]_vars
  /\ (mounted /\ transportConnected) ~> (socketConnected \/ ~mounted \/ ~transportConnected)

\* The tick has shown connected on a view that has seen no connect event and no
\* sample since it was mounted.
C25_Witness ==
  /\ lastOp = "tick"
  /\ scen = 0
  /\ data = <<>>
  /\ socketConnected
  /\ transportConnected

\* ------------------------------------------- claims: push-channel connection
\* C26: across any sequence of mounts and unmounts of the monitoring view, at
\* most one push-channel connection is open at a time, it is open exactly while
\* the view is mounted, and it carries exactly one listener per event (connect,
\* disconnect, device_data), so one delivered telemetry event prepends exactly
\* one sample.
OneConnection ==
  /\ sockets <= 1
  /\ sockets = 1 <=> mounted
  /\ \A ev \in SocketEvents : CopiesIn(ev, listeners) = sockets

C26_SingleConnectionPerMount ==
  /\ OneConnection
  /\ [][/\ OneConnection'
        /\ lastOp' = "live" =>
             \A doc \in ValidDocs :
               OnDeviceData(doc) => data' = ApplyLive(data, RowOfDoc(doc))]_vars

\* The one open connection has delivered one telemetry event to its one
\* device_data listener, and the window holds that one sample.
C26_Witness ==
  /\ lastOp = "live"
  /\ mounted
  /\ sockets = 1
  /\ CopiesIn("device_data", listeners) = 1
  /\ Len(data) = 1

\* ------------------------------------------------ claims: panel request state
\* C27: for each of the four panels forecast, analysis, weather-aware prediction
\* and 24h prediction, in every reachable state the panel never holds an error
\* message and result data at the same time, and while its request is loading
\* its error is null.
PanelRequestState(present, isLoading, err) ==
  /\ ~(err # "null" /\ present)
  /\ isLoading => err = "null"

C27_PanelErrorExcludesData ==
  /\ PanelRequestState(forecastData.present, forecastLoading, forecastError)
  /\ PanelRequestState(analysisData.present, analysisLoading, analysisError)
  /\ PanelRequestState(weatherAwareResult # NoPrediction, weatherAwareLoading, weatherAwareError)
  /\ PanelRequestState(prediction24hData # NoPrediction, prediction24hLoading, prediction24hError)

\* The forecast of the current selection failed after an earlier selection had
\* been answered with data, while the analysis is still loading.
C27_Witness ==
  /\ forecastOutcome.kind = "fail"
  /\ forecastError # "null"
  /\ ~forecastData.present
  /\ ~forecastLoading
  /\ analysisLoading
  /\ analysisError = "null"

\* ------------------------------------------------- claims: error ownership
\* C28: every panel owns its error: the error state of a panel (current weather,
\* forecast, analysis, weather-aware, 24h, search) is written only by that
\* panel's own request lifecycle or its own selector, and is left unchanged by
\* the actions of every other component, including typing in the city search
\* input and failures of other panels.
WeatherLifecycle ==
  \/ \E c \in Cities : SelectCity(c)
  \/ Retry
  \/ \E r \in weatherReqs : \E answer \in OpenMeteoAnswers : WeatherFallbackSettle(r, answer)

ForecastLifecycle ==
  \/ \E c \in Cities : SelectCity(c)
  \/ \E r \in forecastReqs : ForecastReject(r)

AnalysisLifecycle ==
  \/ \E c \in Cities : SelectCity(c)
  \/ \E r \in analysisReqs : AnalysisReject(r)

SearchLifecycle == \E value \in SubmitInputs : OnInputChange(value)

C28_PanelsOwnTheirErrors ==
  [][/\ error' # error => WeatherLifecycle
     /\ forecastError' # forecastError => ForecastLifecycle
     /\ analysisError' # analysisError => AnalysisLifecycle
     /\ weatherAwareError' = weatherAwareError
     /\ prediction24hError' = prediction24hError
     /\ searchError' # searchError => SearchLifecycle]_vars

\* ------------------------------------------- claims: device-id candidate list
\* C29: the device-id candidate list offered by both prediction panels is the
\* union of the device ids returned by the last analysis call and the distinct
\* device ids observed in the recent samples, with the analysis-provided ids
\* taking precedence (they come first) when both are available; both panels
\* always offer the same list.
IdsOf(s) == {s[i] : i \in 1..Len(s)} \ {""}

C29_CandidatesAreUnion ==
  /\ IdsOf(Prediction24hOptions) = IdsOf(analysisData.devices) \cup IdsOf(sensorsData)
  /\ SubSeq(Prediction24hOptions, 1, Len(analysisData.devices)) = analysisData.devices
  /\ WeatherAwareOptions = Prediction24hOptions

\* ------------------------------------------------- claims: retry after failure
\* C30: no failure is fatal: from every reachable state in which a panel is in
\* error, an explicit user action that re-issues that panel's request
\* (re-selecting the city for forecast and analysis, re-submitting for the two
\* predictions) is enabled as soon as the panel is no longer loading, and the
\* request it issues can be answered with data.
ReselectCity == \E c \in Cities : SelectCity(c)

ForecastSucceeds == \E r \in forecastReqs : ~r.cancelled /\ ForecastResolve(r, TRUE)

AnalysisSucceeds ==
  \E r \in analysisReqs : \E body \in AnalysisBodies(r.city) : ~r.cancelled /\ body.present /\ AnalysisResolve(r, body)

WeatherAwareSucceeds ==
  \E req \in BagToSet(weatherAwareReqs) : WeatherAwareResolve(req, Prediction(req.device_id, req.city))

Prediction24hSucceeds ==
  \E req \in BagToSet(prediction24hReqs) : Prediction24hResolve(req, Prediction(req.device_id, req.city))

C30_RetryEnabledAfterFailure ==
  /\ (forecastError # "null" /\ ~forecastLoading) => ENABLED ReselectCity
  /\ (analysisError # "null" /\ ~analysisLoading) => ENABLED ReselectCity
  /\ (weatherAwareError # "null" /\ ~weatherAwareLoading) => ENABLED FetchWeatherAwarePrediction
  /\ (prediction24hError # "null" /\ ~prediction24hLoading) => ENABLED FetchPrediction24h
  /\ forecastLoading => ENABLED ForecastSucceeds
  /\ analysisLoading => ENABLED AnalysisSucceeds
  /\ weatherAwareLoading => ENABLED WeatherAwareSucceeds
  /\ prediction24hLoading => ENABLED Prediction24hSucceeds

\* ------------------------------------------- claims: live path and the filter
\* C33: the live path does not apply the Query Filter: after any batch load
\* under a device filter, whatever the date range, a valid live sample of
\* another device is accepted, and accepting a live sample prepends it to the
\* window, so a sample of a device other than the filtered one comes to the
\* head of the window.
C33_LivePathIgnoresFilter ==
  [][/\ (lastOp' = "batch" /\ Trim(deviceFilter') # "") =>
          (ENABLED (\E doc \in ValidDocs :
                      RowOfDoc(doc).device_id # Trim(deviceFilter) /\ OnDeviceData(doc)))'
     /\ lastOp' = "live" =>
          \A doc \in ValidDocs :
            OnDeviceData(doc) =>
              /\ data' = ApplyLive(data, RowOfDoc(doc))
              /\ data'[1].device_id = RowOfDoc(doc).device_id]_vars

\* After a batch load for device d1, a live sample of d2 heads the window.
C33_Witness ==
  /\ lastOp = "live"
  /\ deviceFilter = "d1"
  /\ lastApplied.device = "d1"
  /\ Len(data) >= 2
  /\ data[1].device_id = "d2"
  /\ data[2].device_id = "d1"

\* --------------------------------------------- claims: batch loading flag
\* C34: the batch loading flag is a single boolean, not a count of requests:
\* each fetch sets it to true when issued and to false when it settles, so when
\* two fetches overlap the flag becomes false as soon as the first of them
\* settles while the other is still in flight, and the refresh button is
\* enabled again at that point.
C34_LoadingIsOneFlag ==
  [][/\ (\E req \in BagToSet(inflight') : CopiesIn(req, inflight') > CopiesIn(req, inflight)) => loading'
     /\ (mounted' /\ BagCardinality(inflight') < BagCardinality(inflight)) =>
          /\ ~loading'
          /\ BagCardinality(inflight') < MaxInflight => (ENABLED Refresh)']_vars

\* One of two overlapping fetches has settled: the flag is down, the other is in flight.
C34_Witness ==
  /\ mounted
  /\ lastOp = "batch"
  /\ ~loading
  /\ inflight # EmptyBag

\* ------------------------------------------ claims: current-weather fallback
\* C39: when the primary current-weather request fails, the public source is
\* queried for the same city; if it returns data the panel shows that data with
\* no error, and the error message is set only when the public source also
\* fails or returns nothing, in which case the previously displayed weather
\* data is left in place alongside the error.
C39_FallbackThenError ==
  [][/\ \A r \in weatherReqs :
          WeatherPrimaryFail(r) =>
            \E f \in weatherReqs' : f.stage = "fallback" /\ f.city = r.city /\ f.cancelled = r.cancelled
     /\ \A r \in weatherReqs : \A answer \in OpenMeteoAnswers :
          (~r.cancelled /\ WeatherFallbackSettle(r, answer)) =>
            IF answer = "data"
              THEN weather' = Weather(r.city, "openmeteo") /\ error' = "null" /\ ~weatherLoading'
              ELSE error' # "null" /\ weather' = weather /\ ~weatherLoading'
     /\ (error' # error /\ error' # "null") =>
          \E r \in weatherReqs : \E answer \in {"null", "throw"} : WeatherFallbackSettle(r, answer)]_vars

\* Both sources failed for Lyon while the weather of Paris was on display.
C39_Witness ==
  /\ error # "null"
  /\ weatherOutcome.kind = "fail"
  /\ weather.present
  /\ weather.city # selectedCity.name
  /\ ~weatherLoading

\* ------------------------------------------- claims: settle timer and submit
\* C37: submit and city selection do not cancel a pending settle timer: a
\* submit, its settlement and a pick leave the timer as it is, so if the user
\* types and submits before the interval has elapsed the timer still fires its
\* typeahead query afterwards, and a non-empty response to it repopulates and
\* reopens the suggestion list after the city has been committed.
SubmitOps == {"submit", "picked", "selected", "nothing", "failed"}

C37_SubmitKeepsTimer ==
  [][/\ (lastSearch'.op \in SubmitOps /\ lastSearch' # lastSearch) =>
          /\ timers' = timers
          /\ searchTimeoutRef' = searchTimeoutRef
     /\ (lastSearch'.op = "selected" /\ lastSearch' # lastSearch) =>
          \A t \in timers' :
            (t.age >= SEARCH_DEBOUNCE_MS /\ BagCardinality(searchReqs') < MaxSearchInflight) =>
              (ENABLED TimerFire(t))'
     /\ (lastSearch'.op = "found" /\ lastSearch' # lastSearch) =>
          (citySuggestions' # <<>> /\ suggestionsOpen')]_vars

\* The city was committed after the last keystroke, and the list is open again
\* on the answer to that keystroke's typeahead query.
C37_Witness ==
  /\ lastSearch.op = "found"
  /\ lastSearch.q = lastTyped
  /\ Trim(lastTyped) # ""
  /\ cityQuery = selectedCity.name
  /\ cityQuery # lastTyped
  /\ suggestionsOpen
  /\ citySuggestions # <<>>

\* ------------------------------------------- claims: settle timer at unmount
\* C38: at most one settle timer is pending at any time, and unmounting the
\* weather view cancels it: after unmount no timer is pending, so no typeahead
\* query is ever issued by a timer armed before the unmount.
C38_UnmountCancelsTimer ==
  /\ Cardinality(timers) <= 1
  /\ [][/\ Cardinality(timers') <= 1
        /\ timers' \subseteq {searchTimeoutRef'}
        /\ ~weatherMounted' => (timers' = {} /\ searchReqs' = searchReqs)]_vars

\* The view was left while a timer was pending; the settle interval has since
\* elapsed and no query was sent.
C38_Witness ==
  /\ ~weatherMounted
  /\ searchTimeoutRef # NoTimer
  /\ Trim(searchTimeoutRef.value) # ""
  /\ sinceInput = SEARCH_DEBOUNCE_MS
  /\ sentSinceInput = 0
  /\ timers = {}

\* C35: each device-keyed prediction panel has at most one request in flight;
\* a request is in flight exactly while the panel is loading, and the submit
\* can act exactly when the panel is not loading and a device is selected, so
\* that a submit with an empty device id issues no request and changes nothing.
C35_OneRequestPerPanel ==
  /\ BagCardinality(predictionReqs) <= 1
  /\ BagCardinality(weatherAwareReqs) <= 1
  /\ BagCardinality(prediction24hReqs) <= 1
  /\ predictionLoading <=> predictionReqs # EmptyBag
  /\ weatherAwareLoading <=> weatherAwareReqs # EmptyBag
  /\ prediction24hLoading <=> prediction24hReqs # EmptyBag
  /\ (ENABLED FetchPrediction) <=> (~predictionLoading /\ Trim(predictDeviceId) # "")
  /\ (ENABLED FetchWeatherAwarePrediction) <=> (~weatherAwareLoading /\ Trim(weatherAwareDeviceId) # "")
  /\ (ENABLED FetchPrediction24h) <=> (~prediction24hLoading /\ Trim(prediction24hDeviceId) # "")

\* A request is in flight, so the button is disabled although a device is selected.
C35_Witness ==
  /\ BagCardinality(predictionReqs) = 1
  /\ predictionLoading
  /\ Trim(predictDeviceId) # ""
  /\ ~ENABLED FetchPrediction

\* C36: a prediction answer is applied whatever is selected when it arrives.
\* A change of a panel's device clears its result and error; every request in
\* flight can settle with its own document, or with its own failure, as the
\* panel's content, also when another device or another city is selected by then.
C36_AnswerIgnoresSelection ==
  /\ [][/\ predictDeviceId' # predictDeviceId => prediction' = NoPredictionResult /\ predictionError' = "null"
        /\ weatherAwareDeviceId' # weatherAwareDeviceId => weatherAwareResult' = NoPrediction /\ weatherAwareError' = "null"
        /\ prediction24hDeviceId' # prediction24hDeviceId => prediction24hData' = NoPrediction /\ prediction24hError' = "null"]_vars
  /\ [](\A dev \in BagToSet(predictionReqs) :
          /\ \A body \in PredictionResults(dev) :
               ENABLED (PredictionResolve(dev, body) /\ prediction' = body /\ predictionError' = predictionError)
          /\ ENABLED (PredictionReject(dev) /\ prediction' = NoPredictionResult /\ predictionError' # "null"))
  /\ [](\A req \in BagToSet(weatherAwareReqs) :
          /\ \A body \in PredictionBodies(req) :
               ENABLED (WeatherAwareResolve(req, body) /\ weatherAwareResult' = body /\ weatherAwareError' = weatherAwareError)
          /\ ENABLED (WeatherAwareReject(req) /\ weatherAwareResult' = NoPrediction /\ weatherAwareError' # "null"))
  /\ [](\A req \in BagToSet(prediction24hReqs) :
          /\ \A body \in PredictionBodies(req) :
               ENABLED (Prediction24hResolve(req, body) /\ prediction24hData' = body /\ prediction24hError' = prediction24hError)
          /\ ENABLED (Prediction24hReject(req) /\ prediction24hData' = NoPrediction /\ prediction24hError' # "null"))

\* The request for d1 has settled after d2 was selected: the panel shows the
\* prediction of d1 under the selection d2.
C36_Witness ==
  /\ predictDeviceId = "d2"
  /\ prediction = PredictionResult("d1")
  /\ ~predictionLoading

\* C32: a lookup that fails with a not-found response ends with the not-found
\* message, no device shown and the lookup not loading; any other failure ends
\* with the backend's detail when it has one and the generic message otherwise,
\* never with the not-found message.
C32_NotFoundIsDistinct ==
  [][(lookupReply'.kind = "fail" /\ BagCardinality(lookupReqs') < BagCardinality(lookupReqs)) =>
       /\ deviceById' = NoDevice
       /\ ~searchLoading'
       /\ lookupReply'.status = NOT_FOUND => lookupError' = NotFoundMessage
       /\ lookupReply'.status # NOT_FOUND =>
            /\ lookupError' = (IF lookupReply'.detail # NoDetail THEN lookupReply'.detail ELSE GenericLookupMessage)
            /\ lookupError' # NotFoundMessage]_vars

\* A not-found response that carries a detail has settled a lookup.
C32_Witness ==
  /\ lookupReply = LookupFailed([status |-> NOT_FOUND, detail |-> "Device not found"])
  /\ lookupError = NotFoundMessage
  /\ deviceById = NoDevice
  /\ ~searchLoading

\* The loading flag of the panel that is answering is set.
Busy ==
  \/ answering = "batch" /\ loading
  \/ answering = "search" /\ searching
  \/ answering = "weatherAware" /\ weatherAwareLoading
  \/ answering = "prediction24h" /\ prediction24hLoading
  \/ answering = "ml" /\ predictionLoading

LocationBusy ==
  \/ answering = "weather" /\ weatherLoading
  \/ answering = "forecast" /\ forecastLoading
  \/ answering = "analysis" /\ analysisLoading

\* C31: every loading flag that is set is cleared in the end. The flags of the
\* batch, of the search, of the two weather predictions and of the ML prediction
\* are cleared by the settlement of any of their requests; the flags of the
\* current weather, of the forecast and of the analysis are cleared by the
\* settlement of the run of the latest City Selection, so they are cleared in
\* the end unless the City Selection keeps changing for ever.
C31_FlagsClear ==
  /\ Busy ~> ~Busy
  /\ []<><<CityChanges>>_vars \/ (LocationBusy ~> ~LocationBusy)

\* The run of an earlier City Selection was still awaited when the city
\* changed, and the forecast of the later city has cleared the flag.
C31_Witness ==
  /\ answering = "forecast"
  /\ ~forecastLoading
  /\ forecastOutcome.kind = "ok"
  /\ forecastOutcome.overlap
  /\ forecastData = Forecast(selectedCity.name)

\* The statement without its exception: every flag is cleared in the end under
\* any stream of city changes.
C31_EveryFlagClears ==
  /\ Busy ~> ~Busy
  /\ LocationBusy ~> ~LocationBusy

====
